---- MODULE Spec2Model ----
(***************************************************************************)
(* Ray-burst / detector engine of the RayBurst component:                  *)
(*   geometry      calculateRayLength, calculateIntersection               *)
(*   histogram     updateDetectorBins                                      *)
(*   aggregation   calculateCompositeBins, as called from renderCanvas     *)
(*                                                                         *)
(* Numbers.  The source computes in IEEE doubles; the model computes in    *)
(* exact arithmetic.  createRayBurst gives probe i the angle               *)
(* 2*pi*i/numRays; for numRays in {1, 2, 4, 8} every angle is a multiple   *)
(* of pi/4, so an angle is stored as k in 0..7 (standing for k*pi/4) and   *)
(* every cosine, sine, distance and travel parameter is an integer         *)
(* multiple of a power of sqrt(2): the record [n |-> n, e |-> e] stands    *)
(* for n * sqrt(2)^e with e in -1..1.  Coordinates, heights and bin        *)
(* counts are integers; half-integers (centerY - H/2) are carried          *)
(* doubled.                                                                *)
(***************************************************************************)
EXTENDS Integers, Sequences, FiniteSets, TLC

(* ---------------------------- bounds ----------------------------------- *)
canvasWidth == 2
canvasHeight == 2
MaxBursts == 2
MaxDetectors == 3
MaxSlices == 3
(* burst-detector pairs of a scene *)
MaxPairs == 3

(* Number.MAX_SAFE_INTEGER is 2^53 - 1; scaled down to fit the checker's   *)
(* integers.  It exceeds every travel parameter of the bounded scenes.     *)
MAX_SAFE_INTEGER == 32767

(* ------------------------ exact arithmetic ----------------------------- *)
Num(n, e) == [n |-> n, e |-> e]

Int2Num(i) == Num(i, 0)

(* twice the square of a non-negative value n*sqrt(2)^e *)
TwiceSquare(v) ==
  IF v.e = -1 THEN v.n * v.n
  ELSE IF v.e = 0 THEN 2 * v.n * v.n
  ELSE 4 * v.n * v.n

(* a < b *)
NumLt(a, b) ==
  IF a.e = b.e THEN a.n < b.n
  ELSE IF a.n < 0 /\ b.n >= 0 THEN TRUE
  ELSE IF a.n >= 0 /\ b.n < 0 THEN FALSE
  ELSE IF a.n >= 0 THEN TwiceSquare(a) < TwiceSquare(b)
  ELSE TwiceSquare(a) > TwiceSquare(b)

NumGt(a, b) == NumLt(b, a)

(* i / c for an integer i and a cosine or sine c = (+-1) * sqrt(2)^e *)
IntDivNum(i, c) == Num(i * c.n, IF i * c.n = 0 THEN 0 ELSE 0 - c.e)

(* a * b, exponents staying within -1..1 for the products the code forms *)
NumMul(a, b) == Num(a.n * b.n, IF a.n * b.n = 0 THEN 0 ELSE a.e + b.e)

(* Math.floor(p / q) for integers p, q with q # 0 *)
FloorDiv(p, q) == IF q > 0 THEN p \div q ELSE (0 - p) \div (0 - q)

(* Math.cos(k*pi/4) and Math.sin(k*pi/4); y grows downwards on the canvas *)
Cos(k) ==
  CASE k = 0 -> Num(1, 0)
    [] k = 1 -> Num(1, -1)
    [] k = 2 -> Num(0, 0)
    [] k = 3 -> Num(-1, -1)
    [] k = 4 -> Num(-1, 0)
    [] k = 5 -> Num(-1, -1)
    [] k = 6 -> Num(0, 0)
    [] k = 7 -> Num(1, -1)

Sin(k) ==
  CASE k = 0 -> Num(0, 0)
    [] k = 1 -> Num(1, -1)
    [] k = 2 -> Num(1, 0)
    [] k = 3 -> Num(1, -1)
    [] k = 4 -> Num(0, 0)
    [] k = 5 -> Num(-1, -1)
    [] k = 6 -> Num(-1, 0)
    [] k = 7 -> Num(-1, -1)

Max(a, b) == IF a >= b THEN a ELSE b

Abs(a) == IF a < 0 THEN 0 - a ELSE a

Zero == Num(0, 0)

(* ----------------------------- geometry -------------------------------- *)
(* One clause of calculateRayLength: if (dist > 0 && dist < length) length = dist *)
Shrink(length, dist) ==
  IF NumGt(dist, Zero) /\ NumLt(dist, length) THEN dist ELSE length

calculateRayLengthBounded(x, y, angle, cw, ch) ==
  LET cosA == Cos(angle)
      sinA == Sin(angle)
      l0 == Int2Num(Max(cw, ch) * 2)
      l2 == IF cosA.n # 0
            THEN LET rightDist == IntDivNum(cw - x, cosA)
                     leftDist == IntDivNum(0 - x, cosA)
                 IN Shrink(Shrink(l0, rightDist), leftDist)
            ELSE l0
      l4 == IF sinA.n # 0
            THEN LET bottomDist == IntDivNum(ch - y, sinA)
                     topDist == IntDivNum(0 - y, sinA)
                 IN Shrink(Shrink(l2, bottomDist), topDist)
            ELSE l2
  IN l4

calculateRayLengthUnbounded(x, y, angle, cw, ch) == Int2Num(MAX_SAFE_INTEGER)

(* null *)
NoHit == [hit |-> FALSE, y |-> 0]

Hit(y) == [hit |-> TRUE, y |-> y]

(* the intersection test without the direction and side checks: only the  *)
(* vertical-ray guard and the range check on t                             *)
calculateIntersectionAnySide(ray, burst, detectorX) ==
  LET dx == Cos(ray.angle)
      dy == Sin(ray.angle)
      t == IntDivNum(detectorX - burst.x, dx)
  IN IF dx.n = 0 THEN NoHit
     ELSE IF NumLt(t, Zero) \/ NumGt(t, ray.length) THEN NoHit
     ELSE Hit(burst.y + NumMul(dy, t).n)

calculateIntersection(ray, burst, detectorX) ==
  LET dx == Cos(ray.angle)
      dy == Sin(ray.angle)
      t == IntDivNum(detectorX - burst.x, dx)
  IN IF dx.n = 0 THEN NoHit
     ELSE IF ~NumGt(dx, Zero) THEN NoHit
     ELSE IF detectorX <= burst.x THEN NoHit
     ELSE IF NumLt(t, Zero) \/ NumGt(t, ray.length) THEN NoHit
     ELSE Hit(burst.y + NumMul(dy, t).n)


(* -------------------------- construction ------------------------------- *)
(* Which utils/calculation module the build resolves: the one bounding a   *)
(* probe by the canvas rectangle, or the one returning MAX_SAFE_INTEGER.   *)
Variants == {"bounded", "unbounded"}

calculateRayLength(variant, x, y, angle, cw, ch) ==
  IF variant = "bounded"
  THEN calculateRayLengthBounded(x, y, angle, cw, ch)
  ELSE calculateRayLengthUnbounded(x, y, angle, cw, ch)

(* probe counts for which every angle 2*pi*i/numRays is a multiple of pi/4 *)
RayCounts == {1, 2, 4, 8}

(* angleStep * i, in units of pi/4 *)
AngleOf(i, n) == (8 \div n) * i

createRayBurst(variant, x, y, n, cw, ch) ==
  [x |-> x, y |-> y,
   rays |-> [i \in 1..n |->
              [angle |-> AngleOf(i - 1, n),
               length |-> calculateRayLength(variant, x, y, AngleOf(i - 1, n), cw, ch)]]]

(* new Array(n).fill(0) *)
Zeros(n) == [i \in 1..n |-> 0]

RECURSIVE SeqSum(_)
SeqSum(s) == IF s = <<>> THEN 0 ELSE Head(s) + SeqSum(Tail(s))

(* a slip: every placed detector is a regular one *)
createRegularDetector(x, y, n, h, isComposite) ==
  [x |-> x, centerY |-> y, height |-> h, bins |-> Zeros(n), isComposite |-> FALSE]

createDetector(x, y, n, h, isComposite) ==
  [x |-> x, centerY |-> y, height |-> h, bins |-> Zeros(n), isComposite |-> isComposite]

(* ----------------------------- histogram ------------------------------- *)
(* a slip: detectorTop taken as centerY, not centerY - height/2 *)
BinIndexFromCenter(intersectY, centerY, n, h) ==
  FloorDiv((intersectY - centerY) * n, h)

(* Math.floor((relativeY / maxDetectorHeight) * numSlices), with           *)
(* detectorTop = centerY - maxDetectorHeight / 2 carried doubled           *)
BinIndex(intersectY, centerY, n, h) ==
  LET detectorTop2 == 2 * centerY - h
      relativeY2 == 2 * intersectY - detectorTop2
  IN FloorDiv(relativeY2 * n, 2 * h)

(* if (binIndex >= 0 && binIndex < bins.length) bins[binIndex]++ *)
(* a slip: bins[binIndex]++ without the range test; an index past the end *)
(* lengthens the array, a negative one leaves its elements alone          *)
IncrementUnguarded(bins, binIndex) ==
  IF binIndex < 0 THEN bins
  ELSE [i \in 1..Max(Len(bins), binIndex + 1) |->
         (IF i <= Len(bins) THEN bins[i] ELSE 0) + (IF i = binIndex + 1 THEN 1 ELSE 0)]

Increment(bins, binIndex) ==
  IF binIndex >= 0 /\ binIndex < Len(bins)
  THEN [bins EXCEPT ![binIndex + 1] = @ + 1]
  ELSE bins

(* the body of burst.rays.forEach for one ray *)
ProcessRay(bins, ray, burst, detector, n, h) ==
  LET intersectY == calculateIntersection(ray, burst, detector.x)
  IN IF ~intersectY.hit THEN bins
     ELSE Increment(bins, BinIndex(intersectY.y, detector.centerY, n, h))

RECURSIVE ProcessRays(_, _, _, _, _, _, _)
ProcessRays(bins, i, burst, detector, n, h, rs) ==
  IF i > Len(rs) THEN bins
  ELSE ProcessRays(ProcessRay(bins, rs[i], burst, detector, n, h),
                   i + 1, burst, detector, n, h, rs)

RECURSIVE ProcessBursts(_, _, _, _, _, _)
ProcessBursts(bins, b, bursts, detector, n, h) ==
  IF b > Len(bursts) THEN bins
  ELSE ProcessBursts(ProcessRays(bins, 1, bursts[b], detector, n, h, bursts[b].rays),
                     b + 1, bursts, detector, n, h)

(* a slip: the detector's previous array is counted into again *)
ReusedBins(detector, n) == detector.bins

(* a slip: the detector's previous array is resized and kept *)
ResizedBins(detector, n) ==
  [i \in 1..n |-> IF i <= Len(detector.bins) THEN detector.bins[i] ELSE 0]

(* const bins = new Array(numSlices).fill(0) *)
FreshBins(detector, n) == Zeros(n)

(* a slip: the sweep does not pass composite detectors by *)
updateDetectorBinsOfAllKinds(dets, bursts, n, h) ==
  [d \in 1..Len(dets) |->
    [dets[d] EXCEPT !.bins = ProcessBursts(FreshBins(dets[d], n), 1, bursts, dets[d], n, h)]]

updateDetectorBins(dets, bursts, n, h) ==
  [d \in 1..Len(dets) |->
    IF dets[d].isComposite THEN dets[d]
    ELSE [dets[d] EXCEPT !.bins = ProcessBursts(FreshBins(dets[d], n), 1, bursts, dets[d], n, h)]]

(* ---------------------------- aggregation ------------------------------ *)
(* a slip: the source index is reused, the two centerY are ignored *)
TargetIndexNaive(sourceCenterY, sourceIndex, compositeCenterY, n, h) == sourceIndex

(* a slip: the lower edge of the source bin, (sourceIndex + 1) * binSize,  *)
(* is projected instead of its centre                                      *)
TargetIndexEdge(sourceCenterY, sourceIndex, compositeCenterY, n, h) ==
  FloorDiv((2 * sourceCenterY - h) * n + (2 * sourceIndex + 2) * h
             - (2 * compositeCenterY - h) * n, 2 * h)

(* Math.floor((relativeY / maxDetectorHeight) * numSlices) for the centre  *)
(* of source bin sourceIndex, all lengths carried multiplied by 2*n        *)
TargetIndex(sourceCenterY, sourceIndex, compositeCenterY, n, h) ==
  LET compositeDetectorTop2 == 2 * compositeCenterY - h
      sourceDetectorTop2 == 2 * sourceCenterY - h
      sourceY2n == sourceDetectorTop2 * n + (2 * sourceIndex + 1) * h
      relativeY2n == sourceY2n - compositeDetectorTop2 * n
  IN FloorDiv(relativeY2n, 2 * h)

(* a slip: = instead of += *)
MapBinAssign(combinedBins, value, sourceIndex, sourceDetector, detector, n, h) ==
  LET targetIndex == TargetIndex(sourceDetector.centerY, sourceIndex, detector.centerY, n, h)
  IN IF value = 0 THEN combinedBins
     ELSE IF targetIndex >= 0 /\ targetIndex < Len(combinedBins)
          THEN [combinedBins EXCEPT ![targetIndex + 1] = value]
          ELSE combinedBins

(* a slip: an index past the last bin is clamped to the last bin *)
MapBinClamp(combinedBins, value, sourceIndex, sourceDetector, detector, n, h) ==
  LET targetIndex == TargetIndex(sourceDetector.centerY, sourceIndex, detector.centerY, n, h)
      clamped == IF targetIndex >= Len(combinedBins) THEN Len(combinedBins) - 1 ELSE targetIndex
  IN IF value = 0 THEN combinedBins
     ELSE IF clamped >= 0 /\ clamped < Len(combinedBins)
          THEN [combinedBins EXCEPT ![clamped + 1] = @ + value]
          ELSE combinedBins

(* the body of sourceDetector.bins.forEach for one bin *)
MapBin(combinedBins, value, sourceIndex, sourceDetector, detector, n, h) ==
  LET targetIndex == TargetIndex(sourceDetector.centerY, sourceIndex, detector.centerY, n, h)
  IN IF value = 0 THEN combinedBins
     ELSE IF targetIndex >= 0 /\ targetIndex < Len(combinedBins)
          THEN [combinedBins EXCEPT ![targetIndex + 1] = @ + value]
          ELSE combinedBins

RECURSIVE MapBins(_, _, _, _, _, _)
MapBins(combinedBins, j, sourceDetector, detector, n, h) ==
  IF j > Len(sourceDetector.bins) THEN combinedBins
  ELSE MapBins(MapBin(combinedBins, sourceDetector.bins[j], j - 1, sourceDetector, detector, n, h),
               j + 1, sourceDetector, detector, n, h)

RECURSIVE MapSources(_, _, _, _, _, _)
MapSources(combinedBins, s, sourceDetectors, detector, n, h) ==
  IF s > Len(sourceDetectors) THEN combinedBins
  ELSE MapSources(MapBins(combinedBins, 1, sourceDetectors[s], detector, n, h),
                  s + 1, sourceDetectors, detector, n, h)

(* a slip: the sources are summed by raw index, whatever their centerY *)
calculateCompositeBinsByIndex(detector, sourceDetectors, n, h) ==
  [i \in 1..n |->
    SeqSum([s \in 1..Len(sourceDetectors) |->
             IF i <= Len(sourceDetectors[s].bins) THEN sourceDetectors[s].bins[i] ELSE 0])]

calculateCompositeBins(detector, sourceDetectors, n, h) ==
  MapSources(Zeros(n), 1, sourceDetectors, detector, n, h)

(* IsSource without the test on isComposite *)
IsSourceAnyKind(d, detector) == d.x < detector.x

(* detectors.filter((d) => d.x < detector.x && !d.isComposite) *)
IsSource(d, detector) == d.x < detector.x /\ ~d.isComposite

SourcesOf(detector, dets) == SelectSeq(dets, LAMBDA d : IsSource(d, detector))

(* the bins renderCanvas draws for one detector *)
ResolvedBins(detector, dets, n, h) ==
  IF detector.isComposite
  THEN calculateCompositeBins(detector, SourcesOf(detector, dets), n, h)
  ELSE detector.bins


(* ---------------------------- presentation ----------------------------- *)
(* Bar widths are kept as fractions [num, den], den > 0; colorBandRange is *)
(* carried in hundredths.                                                  *)
RECURSIVE MathMax(_, _)
MathMax(bins, least) ==
  IF bins = <<>> THEN least ELSE MathMax(Tail(bins), Max(Head(bins), least))

(* a slip: Math.max(...bins) without the 1 *)
maxIntensityWithoutFloor(bins) == MathMax(bins, 0)

(* Math.max(...bins, 1) *)
maxIntensity(bins) == MathMax(bins, 1)

Min(a, b) == IF a <= b THEN a ELSE b

(* Math.min(maxBarWidth, maxIntensity * amplification) *)
globalMaxBarWidth(bins, maxBarWidth, amplification) ==
  Min(maxBarWidth, maxIntensity(bins) * amplification)

(* a slip: the last bin holding the value is taken *)
lastIndexOf(bins, value) ==
  IF \E i \in 1..Len(bins) : bins[i] = value
  THEN (CHOOSE i \in 1..Len(bins) :
          bins[i] = value /\ \A j \in (i + 1)..Len(bins) : bins[j] # value) - 1
  ELSE 0 - 1

(* Array.prototype.indexOf: the first index holding the value, or -1 *)
indexOf(bins, value) ==
  IF \E i \in 1..Len(bins) : bins[i] = value
  THEN (CHOOSE i \in 1..Len(bins) :
          bins[i] = value /\ \A j \in 1..(i - 1) : bins[j] # value) - 1
  ELSE 0 - 1

(* const pocIndex = bins.indexOf(maxIntensity) *)
pocIndex(bins) == indexOf(bins, maxIntensity(bins))

(* a slip: the width is intensity * amplification, without the cap *)
barWidthUncapped(intensity, bins, maxBarWidth, amplification) ==
  [num |-> intensity * amplification, den |-> 1]

(* intensity > 0 ? (intensity / maxIntensity) * globalMaxBarWidth : 0 *)
barWidth(intensity, bins, maxBarWidth, amplification) ==
  IF intensity > 0
  THEN [num |-> intensity * globalMaxBarWidth(bins, maxBarWidth, amplification),
        den |-> maxIntensity(bins)]
  ELSE [num |-> 0, den |-> 1]

(* calculateColorBands: the thresholds in ten-thousandths of colorBandRange *)
band1 == 3413
band2 == 4772
band3 == 6131
band4 == 6345

(* a slip: halfBins taken as numSlices *)
WithinBandOfFullSpan(i, poc, n, colorBandRange, band) ==
  (IF i >= poc THEN i - poc ELSE poc - i) * 100 * 100 * 10000
    <= band * colorBandRange * colorBandRange * n

(* binDistFrac <= band * colorBandRange, with                              *)
(* binDistFrac = |i - pocIndex| / ((numSlices / 2) * colorBandRange);      *)
(* both sides are multiplied by (numSlices / 2) * colorBandRange, which    *)
(* turns the comparison round when colorBandRange is negative              *)
WithinBand(i, poc, n, colorBandRange, band) ==
  IF colorBandRange > 0
  THEN (IF i >= poc THEN i - poc ELSE poc - i) * 2 * 100 * 100 * 10000
         <= band * colorBandRange * colorBandRange * n
  ELSE (IF i >= poc THEN i - poc ELSE poc - i) * 2 * 100 * 100 * 10000
         >= band * colorBandRange * colorBandRange * n

(* getBinColor(binDistFrac, i === pocIndex, bands) for bin i *)
getBinColor(i, poc, n, colorBandRange) ==
  IF i = poc THEN "yellow"
  ELSE IF WithinBand(i, poc, n, colorBandRange, band1) THEN "light green"
  ELSE IF WithinBand(i, poc, n, colorBandRange, band2) THEN "green"
  ELSE IF WithinBand(i, poc, n, colorBandRange, band3) THEN "orange"
  ELSE IF WithinBand(i, poc, n, colorBandRange, band4) THEN "red"
  ELSE "blue"

(* the colours of the bars drawn for one detector: bins.forEach draws a    *)
(* bar only where intensity > 0                                            *)
BarColors(bins, n, colorBandRange) ==
  [i \in 1..Len(bins) |->
    IF bins[i] > 0 THEN getBinColor(i - 1, pocIndex(bins), n, colorBandRange) ELSE "none"]

(* the widths of the bars drawn for one detector *)
BarWidths(bins, maxBarWidth, amplification) ==
  [i \in 1..Len(bins) |-> barWidth(bins[i], bins, maxBarWidth, amplification)]

(* ------------------------------- state --------------------------------- *)
VARIABLES
  variant,            \* which calculateRayLength the build resolves
  rays,               \* useState<RayBurstType[]>
  numRays,
  detectors,          \* useState<Detector[]>
  numSlices,
  maxDetectorHeight,
  displayed,          \* the bins drawn for each detector by the last renderCanvas pass
  phase,              \* the stage of a scene; "live" in the running component
  isPlacingDetector,
  isPlacingCompositeDetector,
  isDraggingDetector,
  selectedDetectorIndex,
  wasDragging,
  pendingRays,        \* the numRays effect has a changed dependency and has not run
  pendingBins,        \* the bins recompute effect has a changed dependency and has not run
  pendingDrag,        \* the drag effect has a changed dependency and has not run
  plotClosure,        \* what handlePlotSunburstsAtHighs of the chart closed over
  pointer,            \* where the mouse button is in a press, release, click sequence
  isPanning,
  startPanPoint,      \* its x, in grid steps
  chartOffset,        \* its x, in grid steps
  referenceLines,     \* useState<ReferenceLine[]>
  isHorizontalRefLine,
  isVerticalRefLine

(* the interaction state and the effects waiting to run *)
(* the panning state *)
pan == <<isPanning, startPanPoint, chartOffset>>

(* the reference lines and the keys that arm them *)
refs == <<referenceLines, isHorizontalRefLine, isVerticalRefLine>>

ui == <<isPlacingDetector, isPlacingCompositeDetector, isDraggingDetector,
        selectedDetectorIndex, wasDragging, pendingRays, pendingBins, pendingDrag,
        plotClosure, pointer, pan, refs>>

vars == <<variant, rays, numRays, detectors, numSlices, maxDetectorHeight, displayed, phase, ui>>

(* useState<number | null>(null); detectors are numbered from 1 *)
null == 0

(* the ray-burst component has no plot handler *)
NoPlot == [candleData |-> <<>>, numRays |-> 0]

(* the interaction state after mount: nothing armed, nothing dragged, no   *)
(* effect waiting                                                          *)
InteractionAtRest ==
  /\ pointer = "up"
  /\ isPanning = FALSE
  /\ startPanPoint = 0
  /\ chartOffset = 0
  /\ referenceLines = <<>>
  /\ isHorizontalRefLine = FALSE
  /\ isVerticalRefLine = FALSE

UiAtRest ==
  /\ plotClosure = NoPlot
  /\ InteractionAtRest
  /\ isPlacingDetector = FALSE
  /\ isPlacingCompositeDetector = FALSE
  /\ isDraggingDetector = FALSE
  /\ selectedDetectorIndex = null
  /\ wasDragging = FALSE
  /\ pendingRays = FALSE
  /\ pendingBins = FALSE
  /\ pendingDrag = FALSE

(* pointer positions on the canvas *)
Xs == 0..canvasWidth
Ys == 0..canvasHeight

(* values of the detector-height setting *)
Heights == {2, 3}

(* pointer heights and probe counts used to place the objects of a scene *)
SceneYs == {0, 1}
SceneRayCounts == {1, 8}

SeqsUpTo(S, n) == UNION {[1..k -> S] : k \in 0..n}

(* Scenes are taken up to the order of placement: objects are listed left  *)
(* to right, then top to bottom, regular detectors before composite ones.  *)
PlaceKey(p) == (p[1] * (canvasHeight + 1) + p[2]) * 2 + (IF Len(p) = 3 /\ p[3] THEN 1 ELSE 0)

InPlaceOrder(ps) == \A i \in 1..(Len(ps) - 1) : PlaceKey(ps[i]) <= PlaceKey(ps[i + 1])

(* one renderCanvas pass over the detectors *)
RenderPass(dets, n, h) == [d \in 1..Len(dets) |-> ResolvedBins(dets[d], dets, n, h)]

(* ------------------- scenes: the engine's functions --------------------- *)
(* A scene is what a sequence of placements leaves: bursts made by         *)
(* createRayBurst, detectors made by createDetector; then one recompute    *)
(* sweep and one presentation pass are applied to it.                      *)
SceneInit ==
  /\ variant \in Variants
  /\ numRays \in SceneRayCounts
  /\ numSlices \in 1..MaxSlices
  /\ maxDetectorHeight \in Heights
  /\ \E ps \in SeqsUpTo(Xs \X SceneYs, MaxBursts) :
       /\ InPlaceOrder(ps)
       /\ rays = [i \in 1..Len(ps) |->
                  createRayBurst(variant, ps[i][1], ps[i][2], numRays, canvasWidth, canvasHeight)]
  /\ \E ds \in SeqsUpTo(Xs \X SceneYs \X BOOLEAN, MaxDetectors) :
       /\ InPlaceOrder(ds)
       /\ detectors = [i \in 1..Len(ds) |->
                       createDetector(ds[i][1], ds[i][2], numSlices, maxDetectorHeight, ds[i][3])]
  /\ Len(rays) * Len(detectors) <= MaxPairs
  /\ displayed = <<>>
  /\ phase = "placed"
  /\ UiAtRest

SceneSweep ==
  /\ phase = "placed"
  /\ detectors' = updateDetectorBins(detectors, rays, numSlices, maxDetectorHeight)
  /\ phase' = "swept"
  /\ UNCHANGED <<variant, rays, numRays, numSlices, maxDetectorHeight, displayed, ui>>

(* a slip: the pass keeps what it aggregated in the composite's bins *)
SceneRenderStoring ==
  /\ phase = "swept"
  /\ displayed' = RenderPass(detectors, numSlices, maxDetectorHeight)
  /\ detectors' = [d \in 1..Len(detectors) |->
                    [detectors[d] EXCEPT !.bins = displayed'[d]]]
  /\ phase' = "rendered"
  /\ UNCHANGED <<variant, rays, numRays, numSlices, maxDetectorHeight, ui>>

SceneRender ==
  /\ phase = "swept"
  /\ displayed' = RenderPass(detectors, numSlices, maxDetectorHeight)
  /\ phase' = "rendered"
  /\ UNCHANGED <<variant, rays, numRays, detectors, numSlices, maxDetectorHeight, ui>>

SceneNext == SceneSweep \/ SceneRender

SpecScene == SceneInit /\ [][SceneNext]_vars


(* ------------------- the component: handlers and effects ---------------- *)
(* Coordinates are in grid steps of MOVE_HANDLE_OFFSET pixels, so that a   *)
(* detector's move handle lies on the grid; the hit tests are made in      *)
(* pixels.                                                                 *)
CENTROID_RADIUS == 5
MOVE_HANDLE_RADIUS == 5
MOVE_HANDLE_OFFSET == 15
HOVER_DETECTION_RADIUS_SQUARED == 36

UiMaxBursts == 1
UiMaxDetectors == 1
MaxReferenceLines == 1
UiMaxSlices == 2

Px(u) == u * MOVE_HANDLE_OFFSET

(* Array.prototype.findIndex over the matching indices, numbered from 1;   *)
(* 0 when nothing matches                                                  *)
FindIndex(matching) ==
  IF matching = {} THEN 0 ELSE CHOOSE i \in matching : \A j \in matching : i <= j

(* prev.filter((_, index) => index !== i) *)
RemoveAt(s, i) == [j \in 1..(Len(s) - 1) |-> IF j < i THEN s[j] ELSE s[j + 1]]

isPointInCircle(px, py, cx, cy, radius) ==
  LET dx == Px(px) - Px(cx)
      dy == Px(py) - Px(cy)
  IN dx * dx + dy * dy <= radius * radius

isPointNearDetectorHandle(px, py, detector) ==
  LET dx == Px(px) - (Px(detector.x) + MOVE_HANDLE_OFFSET)
      dy == Px(py) - Px(detector.centerY)
  IN dx * dx + dy * dy <= MOVE_HANDLE_RADIUS * MOVE_HANDLE_RADIUS

IsAtDetectorDot(x, y, detector) ==
  LET dx == Px(x) - Px(detector.x)
      dy == Px(y) - Px(detector.centerY)
  IN dx * dx + dy * dy <= HOVER_DETECTION_RADIUS_SQUARED

findDetectorAtPoint(x, y, dets) ==
  FindIndex({i \in 1..Len(dets) : IsAtDetectorDot(x, y, dets[i])})

(* a slip: the dots of the reference lines are never found *)
findNoReferenceLine(x, y, lines) == 0

(* referenceLines.findIndex(...): the first line whose dot holds the point *)
findReferenceLineAtPoint(x, y, lines) ==
  FindIndex({i \in 1..Len(lines) :
              Px(x - lines[i].x) * Px(x - lines[i].x) + Px(y - lines[i].y) * Px(y - lines[i].y)
                <= HOVER_DETECTION_RADIUS_SQUARED})

findRayBurstAtPoint(x, y, bursts) ==
  FindIndex({i \in 1..Len(bursts) :
              isPointInCircle(x, y, bursts[i].x, bursts[i].y, CENTROID_RADIUS)})

(* the values typed into the control panel, and what its onChange          *)
(* handlers make of them                                                   *)
UiRayCounts == {1, 8}

(* the pointer rows clicks and presses are taken from; the pointer moves    *)
(* over every row                                                          *)
UiYs == {0, 1}
onChangeCount(v) == Max(1, IF v = 0 THEN 1 ELSE v)

(* the text of an input, as its characters *)
Digits == <<"0", "1", "2", "3", "4", "5", "6", "7", "8", "9">>
IsDigit(c) == \E k \in 1..Len(Digits) : Digits[k] = c
DigitValue(c) == (CHOOSE k \in 1..Len(Digits) : Digits[k] = c) - 1

NaN == [nan |-> TRUE, value |-> 0]

(* the integer written by the digits of text from position i on, up to the *)
(* first character that is no digit                                        *)
RECURSIVE ReadDigits(_, _, _)
ReadDigits(text, i, value) ==
  IF i > Len(text) \/ ~IsDigit(text[i]) THEN value
  ELSE ReadDigits(text, i + 1, (value * Len(Digits) + DigitValue(text[i])) % MAX_SAFE_INTEGER)

(* parseInt: an optional sign, then the leading digits; NaN without a digit *)
parseInt(text) ==
  LET signed == Len(text) > 0 /\ text[1] \in {"-", "+"}
      first == IF signed THEN 2 ELSE 1
  IN IF first > Len(text) \/ ~IsDigit(text[first]) THEN NaN
     ELSE [nan |-> FALSE,
           value |-> IF signed /\ text[1] = "-"
                     THEN 0 - ReadDigits(text, first, 0) ELSE ReadDigits(text, first, 0)]

(* parsed || fallback: NaN and 0 are falsy *)
OrElse(parsed, fallback) == IF parsed.nan \/ parsed.value = 0 THEN fallback ELSE parsed.value

(* a slip: parseInt(e.target.value) || 1 without Math.max(1, ...) *)
onChangeTextUnclamped(text) == OrElse(parseInt(text), 1)

(* Math.max(1, parseInt(e.target.value) || 1) *)
onChangeText(text) == Max(1, OrElse(parseInt(text), 1))

(* texts typed into the bin-count input: the counts up to the bound and a  *)
(* negative one                                                            *)
TypedSlices == {<<Digits[k + 1]>> : k \in 0..UiMaxSlices} \cup {<<"-", "3">>}

(* with them the empty, non-numeric and fractional texts, which the input  *)
(* turns into the same values                                              *)
TypedTexts == TypedSlices \cup {<<>>, <<"a">>, <<"-">>, <<"1", ".", "7">>, <<"0", "2">>}

(* no effect is waiting: the next event is handled *)
Idle == ~pendingRays /\ ~pendingBins /\ ~pendingDrag

Init ==
  /\ variant \in Variants
  /\ numRays \in UiRayCounts
  /\ numSlices \in 1..UiMaxSlices
  /\ maxDetectorHeight \in Heights
  /\ rays = <<>>
  /\ detectors = <<>>
  /\ displayed = <<>>
  /\ phase = "live"
  /\ UiAtRest

(* the "Place Detector" and "Place Composite Detector" buttons; the       *)
(* pointer has left the canvas, so no drag is active                       *)
PlaceDetectorButton ==
  /\ Idle /\ ~isDraggingDetector
  /\ isPlacingDetector' = TRUE
  /\ UNCHANGED <<pointer, pan, refs, plotClosure, phase, variant, rays, numRays, detectors, numSlices, maxDetectorHeight, displayed,
                 isPlacingCompositeDetector, isDraggingDetector, selectedDetectorIndex,
                 wasDragging, pendingRays, pendingBins, pendingDrag>>

PlaceCompositeDetectorButton ==
  /\ Idle /\ ~isDraggingDetector
  /\ isPlacingCompositeDetector' = TRUE
  /\ UNCHANGED <<pointer, pan, refs, plotClosure, phase, variant, rays, numRays, detectors, numSlices, maxDetectorHeight, displayed,
                 isPlacingDetector, isDraggingDetector, selectedDetectorIndex,
                 wasDragging, pendingRays, pendingBins, pendingDrag>>

(* the control panel's inputs *)
setNumRays(typed) ==
  /\ Idle /\ ~isDraggingDetector
  /\ numRays' = onChangeCount(typed)
  /\ pendingRays' = (numRays' # numRays)
  /\ UNCHANGED <<pointer, pan, refs, plotClosure, phase, variant, rays, detectors, numSlices, maxDetectorHeight, displayed,
                 isPlacingDetector, isPlacingCompositeDetector, isDraggingDetector,
                 selectedDetectorIndex, wasDragging, pendingBins, pendingDrag>>

setNumSlices(typed) ==
  /\ Idle /\ ~isDraggingDetector
  /\ numSlices' = onChangeText(typed)
  /\ pendingBins' = (numSlices' # numSlices)
  /\ UNCHANGED <<pointer, pan, refs, plotClosure, phase, variant, rays, numRays, detectors, maxDetectorHeight, displayed,
                 isPlacingDetector, isPlacingCompositeDetector, isDraggingDetector,
                 selectedDetectorIndex, wasDragging, pendingRays, pendingDrag>>

setMaxDetectorHeight(value) ==
  /\ Idle /\ ~isDraggingDetector
  /\ maxDetectorHeight' = value
  /\ pendingBins' = (value # maxDetectorHeight)
  /\ UNCHANGED <<pointer, pan, refs, plotClosure, phase, variant, rays, numRays, detectors, numSlices, displayed,
                 isPlacingDetector, isPlacingCompositeDetector, isDraggingDetector,
                 selectedDetectorIndex, wasDragging, pendingRays, pendingDrag>>

clearDetectors ==
  /\ Idle /\ ~isDraggingDetector
  /\ detectors' = <<>>
  /\ pendingBins' = (Len(detectors) # 0)
  /\ UNCHANGED <<pointer, pan, refs, plotClosure, phase, variant, rays, numRays, numSlices, maxDetectorHeight, displayed,
                 isPlacingDetector, isPlacingCompositeDetector, isDraggingDetector,
                 selectedDetectorIndex, wasDragging, pendingRays, pendingDrag>>

clearRays ==
  /\ Idle /\ ~isDraggingDetector
  /\ rays' = <<>>
  /\ pendingBins' = TRUE
  /\ UNCHANGED <<pointer, pan, refs, plotClosure, phase, variant, numRays, detectors, numSlices, maxDetectorHeight, displayed,
                 isPlacingDetector, isPlacingCompositeDetector, isDraggingDetector,
                 selectedDetectorIndex, wasDragging, pendingRays, pendingDrag>>

(* onClick; a click follows the mouseup that ends a drag *)
handleCanvasClick(clickX, clickY) ==
  /\ Idle /\ ~isDraggingDetector
  /\ UNCHANGED <<pan, isHorizontalRefLine, isVerticalRefLine,
                 plotClosure, phase, variant, numRays, numSlices, maxDetectorHeight, displayed,
                 isDraggingDetector, selectedDetectorIndex, pendingRays, pendingDrag>>
  /\ LET clickedRefLineIndex == findReferenceLineAtPoint(clickX, clickY, referenceLines)
         clickedDetectorIndex == findDetectorAtPoint(clickX, clickY, detectors)
         clickedBurstIndex == findRayBurstAtPoint(clickX, clickY, rays)
     IN IF isPanning \/ wasDragging
        THEN /\ wasDragging' = FALSE
             /\ UNCHANGED <<rays, detectors, referenceLines, isPlacingDetector,
                            isPlacingCompositeDetector, pendingBins>>
        ELSE IF clickedRefLineIndex # 0
        THEN /\ referenceLines' = RemoveAt(referenceLines, clickedRefLineIndex)
             /\ UNCHANGED <<rays, detectors, isPlacingDetector, isPlacingCompositeDetector,
                            wasDragging, pendingBins>>
        ELSE IF clickedDetectorIndex # 0
        THEN /\ detectors' = RemoveAt(detectors, clickedDetectorIndex)
             /\ pendingBins' = TRUE
             /\ UNCHANGED <<rays, referenceLines, isPlacingDetector, isPlacingCompositeDetector,
                            wasDragging>>
        ELSE IF isHorizontalRefLine \/ isVerticalRefLine
        THEN /\ referenceLines' = Append(referenceLines,
                                         [x |-> clickX, y |-> clickY,
                                          isHorizontal |-> isHorizontalRefLine])
             /\ UNCHANGED <<rays, detectors, isPlacingDetector, isPlacingCompositeDetector,
                            wasDragging, pendingBins>>
        ELSE IF isPlacingDetector \/ isPlacingCompositeDetector
        THEN /\ detectors' = Append(detectors,
                                    createDetector(clickX, clickY, numSlices, maxDetectorHeight,
                                                   isPlacingCompositeDetector))
             /\ isPlacingDetector' = FALSE
             /\ isPlacingCompositeDetector' = FALSE
             /\ pendingBins' = TRUE
             /\ UNCHANGED <<rays, referenceLines, wasDragging>>
        ELSE IF clickedBurstIndex # 0
        THEN /\ rays' = RemoveAt(rays, clickedBurstIndex)
             /\ pendingBins' = TRUE
             /\ UNCHANGED <<detectors, referenceLines, isPlacingDetector,
                            isPlacingCompositeDetector, wasDragging>>
        ELSE /\ rays' = Append(rays, createRayBurst(variant, clickX, clickY, numRays,
                                                   canvasWidth, canvasHeight))
             /\ pendingBins' = TRUE
             /\ UNCHANGED <<detectors, referenceLines, isPlacingDetector,
                            isPlacingCompositeDetector, wasDragging>>

(* onMouseDown *)
handleCanvasMouseDown(clickX, clickY) ==
  /\ Idle
  /\ UNCHANGED <<pan, refs, plotClosure, phase, variant, rays, numRays, detectors, numSlices, maxDetectorHeight, displayed,
                 isPlacingDetector, isPlacingCompositeDetector, wasDragging,
                 pendingRays, pendingBins>>
  /\ LET clickedDetectorIndex ==
           FindIndex({i \in 1..Len(detectors) :
                       isPointNearDetectorHandle(clickX, clickY, detectors[i])})
     IN IF ~isPanning /\ clickedDetectorIndex # 0
        THEN /\ isDraggingDetector' = TRUE
             /\ selectedDetectorIndex' = clickedDetectorIndex
             /\ pendingDrag' = (~isDraggingDetector \/ selectedDetectorIndex # clickedDetectorIndex)
        ELSE UNCHANGED <<isDraggingDetector, selectedDetectorIndex, pendingDrag>>

(* newDetectors[index] = {...newDetectors[index], centerY: mouseY} on a   *)
(* copy of the list: at an index past the end the spread of undefined      *)
(* gives an object with centerY alone, and the list grows to that index,   *)
(* the places between staying empty                                       *)
SetCenterY(dets, index, mouseY) ==
  IF index \in 1..Len(dets)
  THEN [dets EXCEPT ![index].centerY = mouseY]
  ELSE [i \in 1..index |->
         IF i <= Len(dets) THEN dets[i]
         ELSE IF i = index THEN [centerY |-> mouseY] ELSE <<>>]

(* onMouseMove *)
handleCanvasMouseMove(mouseX, mouseY) ==
  /\ Idle
  /\ UNCHANGED <<pan, refs, plotClosure, phase, variant, rays, numRays, numSlices, maxDetectorHeight, displayed,
                 isPlacingDetector, isPlacingCompositeDetector, isDraggingDetector,
                 selectedDetectorIndex, wasDragging, pendingRays, pendingBins>>
  /\ IF ~isPanning /\ isDraggingDetector /\ selectedDetectorIndex # null
     THEN /\ detectors' = SetCenterY(detectors, selectedDetectorIndex, mouseY)
          /\ pendingDrag' = (detectors' # detectors)
     ELSE UNCHANGED <<detectors, pendingDrag>>

(* onMouseUp and onMouseLeave *)
handleCanvasMouseUp ==
  /\ Idle
  /\ wasDragging' = (IF isDraggingDetector THEN TRUE ELSE wasDragging)
  /\ isDraggingDetector' = FALSE
  /\ selectedDetectorIndex' = null
  /\ UNCHANGED <<pan, refs, plotClosure, phase, variant, rays, numRays, detectors, numSlices, maxDetectorHeight, displayed,
                 isPlacingDetector, isPlacingCompositeDetector,
                 pendingRays, pendingBins, pendingDrag>>

(* useEffect(..., [numRays]): every burst gets numRays probes of fresh length *)
RaysEffect ==
  /\ pendingRays
  /\ rays' = [b \in 1..Len(rays) |->
               createRayBurst(variant, rays[b].x, rays[b].y, numRays, canvasWidth, canvasHeight)]
  /\ pendingRays' = FALSE
  /\ pendingBins' = TRUE
  /\ UNCHANGED <<pointer, pan, refs, plotClosure, phase, variant, numRays, detectors, numSlices, maxDetectorHeight, displayed,
                 isPlacingDetector, isPlacingCompositeDetector, isDraggingDetector,
                 selectedDetectorIndex, wasDragging, pendingDrag>>

(* useEffect(..., [rays, numSlices, detectors.length, maxDetectorHeight]) *)
BinsEffect ==
  /\ pendingBins /\ ~pendingRays
  /\ detectors' = updateDetectorBins(detectors, rays, numSlices, maxDetectorHeight)
  /\ pendingBins' = FALSE
  /\ UNCHANGED <<pointer, pan, refs, plotClosure, phase, variant, rays, numRays, numSlices, maxDetectorHeight, displayed,
                 isPlacingDetector, isPlacingCompositeDetector, isDraggingDetector,
                 selectedDetectorIndex, wasDragging, pendingRays, pendingDrag>>

(* a slip: the drag effect runs without recomputing *)
DragEffectWithoutSweep ==
  /\ pendingDrag
  /\ pendingDrag' = FALSE
  /\ UNCHANGED <<pointer, pan, refs, plotClosure, phase, variant, rays, numRays, detectors, numSlices, maxDetectorHeight,
                 displayed, isPlacingDetector, isPlacingCompositeDetector, isDraggingDetector,
                 selectedDetectorIndex, wasDragging, pendingRays, pendingBins>>

(* the effect that recomputes the bins while a detector is dragged *)
DragEffect ==
  /\ pendingDrag
  /\ pendingDrag' = FALSE
  /\ IF isDraggingDetector /\ selectedDetectorIndex # null
     THEN detectors' = updateDetectorBins(detectors, rays, numSlices, maxDetectorHeight)
     ELSE UNCHANGED detectors
  /\ UNCHANGED <<pointer, pan, refs, plotClosure, phase, variant, rays, numRays, numSlices, maxDetectorHeight, displayed,
                 isPlacingDetector, isPlacingCompositeDetector, isDraggingDetector,
                 selectedDetectorIndex, wasDragging, pendingRays, pendingBins>>

(* an animation frame: renderCanvas draws the committed state *)
renderCanvas ==
  /\ displayed' = RenderPass(detectors, numSlices, maxDetectorHeight)
  /\ UNCHANGED <<phase, variant, rays, numRays, detectors, numSlices, maxDetectorHeight, ui>>

(* the sizes a run keeps the scene within *)
UiCapped ==
  /\ Len(rays') <= UiMaxBursts
  /\ Len(detectors') <= UiMaxDetectors
  /\ Len(referenceLines') <= MaxReferenceLines

(* the events and the effects *)
Operations ==
  \/ PlaceDetectorButton
  \/ PlaceCompositeDetectorButton
  \/ \E typed \in UiRayCounts \cup {0} : setNumRays(typed)
  \/ \E typed \in TypedSlices : setNumSlices(typed)
  \/ \E value \in Heights : setMaxDetectorHeight(value)
  \/ clearDetectors
  \/ clearRays
  \/ \E x \in Xs, y \in UiYs : handleCanvasClick(x, y) /\ UiCapped /\ UNCHANGED pointer
  \/ \E x \in Xs, y \in UiYs : handleCanvasMouseDown(x, y) /\ UNCHANGED pointer
  \/ \E x \in Xs, y \in Ys : handleCanvasMouseMove(x, y) /\ UNCHANGED pointer
  \/ handleCanvasMouseUp /\ UNCHANGED pointer
  \/ RaysEffect
  \/ BinsEffect
  \/ DragEffect

Next == Operations \/ renderCanvas

Spec == Init /\ [][Next]_vars

SpecOperations == Init /\ [][Operations]_vars

(* "Clear Detectors" activated from the keyboard (the button focused with  *)
(* Tab, then Enter) while the mouse button is held on a move handle        *)
clearDetectorsByKey ==
  /\ Idle /\ isDraggingDetector
  /\ detectors' = <<>>
  /\ pendingBins' = (Len(detectors) # 0)
  /\ pendingDrag' = (Len(detectors) # 0)
  /\ UNCHANGED <<pointer, pan, refs, plotClosure, phase, variant, rays, numRays, numSlices, maxDetectorHeight, displayed,
                 isPlacingDetector, isPlacingCompositeDetector, isDraggingDetector,
                 selectedDetectorIndex, wasDragging, pendingRays>>

(* every element of the list is a detector *)
DetectorsAreWhole ==
  \A d \in 1..Len(detectors) :
    DOMAIN detectors[d] = {"x", "centerY", "height", "bins", "isComposite"}

(* the component with the keyboard; a run is followed as long as the list  *)
(* holds detectors only                                                    *)
KeyboardNext ==
  \/ DetectorsAreWhole /\ Operations
  \/ DetectorsAreWhole /\ clearDetectorsByKey

SpecKeyboard == Init /\ [][KeyboardNext]_vars



(* ------------- the component with the pointer and the keys ------------- *)
(* what the keys leave alone *)
component == <<variant, rays, numRays, detectors, numSlices, maxDetectorHeight, displayed, phase,
               isPlacingDetector, isPlacingCompositeDetector, isDraggingDetector,
               selectedDetectorIndex, wasDragging, pendingRays, pendingBins, pendingDrag,
               plotClosure, pointer, startPanPoint, chartOffset, referenceLines>>

(* useKeyboardShortcuts: Space, H and V, pressed and released *)
onSpaceDown ==
  /\ Idle
  /\ isPanning' = TRUE
  /\ UNCHANGED <<component, isHorizontalRefLine, isVerticalRefLine>>

onSpaceUp ==
  /\ Idle
  /\ isPanning' = FALSE
  /\ UNCHANGED <<component, isHorizontalRefLine, isVerticalRefLine>>

onHKeyDown ==
  /\ Idle
  /\ isHorizontalRefLine' = TRUE
  /\ UNCHANGED <<component, isPanning, isVerticalRefLine>>

onHKeyUp ==
  /\ Idle
  /\ isHorizontalRefLine' = FALSE
  /\ UNCHANGED <<component, isPanning, isVerticalRefLine>>

onVKeyDown ==
  /\ Idle
  /\ isVerticalRefLine' = TRUE
  /\ UNCHANGED <<component, isPanning, isHorizontalRefLine>>

onVKeyUp ==
  /\ Idle
  /\ isVerticalRefLine' = FALSE
  /\ UNCHANGED <<component, isPanning, isHorizontalRefLine>>

clearReferenceLines ==
  /\ Idle /\ ~isDraggingDetector
  /\ referenceLines' = <<>>
  /\ UNCHANGED <<component, isPanning, isHorizontalRefLine, isVerticalRefLine>>

(* The mouse button over the canvas.  A press is a mousedown; a release    *)
(* over the canvas is a mouseup, and the browser follows it with the click *)
(* before any other event; the pointer that leaves the canvas with the     *)
(* button held gives mouseleave, and the button is let go outside, where   *)
(* the canvas gets neither mouseup nor click.                              *)
PressOnCanvas(x, y) ==
  /\ pointer = "up"
  /\ pointer' = "down"
  /\ handleCanvasMouseDown(x, y)

MoveOnCanvas(x, y) ==
  /\ pointer \in {"up", "down"}
  /\ UNCHANGED pointer
  /\ handleCanvasMouseMove(x, y)

ReleaseOnCanvas ==
  /\ pointer = "down"
  /\ pointer' = "released"
  /\ handleCanvasMouseUp

GeneratedClick(x, y) ==
  /\ pointer = "released"
  /\ pointer' = "up"
  /\ handleCanvasClick(x, y)

(* onMouseLeave={handleCanvasMouseUp} *)
LeaveCanvas ==
  /\ pointer = "down"
  /\ pointer' = "up"
  /\ handleCanvasMouseUp

(* the pointer columns and rows of the presses, the moves and the clicks,  *)
(* and the number of emitters, detectors and reference lines a run keeps   *)
(* the scene within                                                        *)
PointerXs == {0, 1}
PointerYs == {0}
MaxOfAKind == 2

PointerCapped ==
  /\ Len(rays') <= MaxOfAKind
  /\ Len(detectors') <= MaxOfAKind
  /\ Len(referenceLines') <= MaxOfAKind

PointerNext ==
  \/ pointer = "up" /\ PlaceDetectorButton
  \/ pointer = "up" /\ PlaceCompositeDetectorButton
  \/ pointer = "up" /\ \E value \in Heights : setMaxDetectorHeight(value)
  \/ pointer = "up" /\ clearDetectors
  \/ pointer = "up" /\ clearRays
  \/ pointer = "up" /\ clearReferenceLines
  \/ pointer # "released" /\ onSpaceDown
  \/ pointer # "released" /\ onSpaceUp
  \/ pointer # "released" /\ onHKeyDown
  \/ pointer # "released" /\ onHKeyUp
  \/ pointer # "released" /\ onVKeyDown
  \/ pointer # "released" /\ onVKeyUp
  \/ \E x \in PointerXs, y \in PointerYs : PressOnCanvas(x, y)
  \/ \E x \in PointerXs, y \in PointerYs : MoveOnCanvas(x, y)
  \/ ReleaseOnCanvas
  \/ \E x \in PointerXs, y \in PointerYs : GeneratedClick(x, y) /\ PointerCapped
  \/ LeaveCanvas
  \/ BinsEffect
  \/ DragEffect

SpecPointer == Init /\ [][PointerNext]_vars

(* ------------------- the chart component: its emitters ------------------ *)
(* CombinedChart keeps the same state and adds the bulk "plot sunbursts at *)
(* highs" action.  Lengths are in grid steps; the control panel's 264      *)
(* pixels are taken up to the next whole step.                             *)
controlPanelWidth == 264
padding == 60
PanelSteps == (controlPanelWidth + MOVE_HANDLE_OFFSET - 1) \div MOVE_HANDLE_OFFSET
PaddingSteps == padding \div MOVE_HANDLE_OFFSET

(* the plot area, and the width and height props that give it *)
chartWidth == 2
chartHeight == 2
propsWidth == chartWidth + 2 * PaddingSteps + PanelSteps
propsHeight == chartHeight + 2 * PaddingSteps
originX == PaddingSteps
originY == propsHeight - PaddingSteps

(* canvas.width = width - controlPanelWidth; canvas.height = height *)
chartCanvasWidth == propsWidth - PanelSteps
chartCanvasHeight == propsHeight

ChartMaxBursts == 2
MaxCandles == 2

(* pointer positions of the clicks on the chart, one column and one row    *)
(* outside the plot area included                                          *)
ChartXs == (originX - 1)..(originX + chartWidth)
ChartYs == (originY - 1)..(originY + 1)

(* the canvas positions of the highs of imported candles *)
CandleSpots == {<<originX, originY - 1>>, <<originX + chartWidth, originY>>}

createRayBurstWithCurrentSettings(build, n, x, y, w, h) == createRayBurst(build, x, y, n, w, h)

ChartInit ==
  /\ variant \in Variants
  /\ numRays \in UiRayCounts
  /\ numSlices \in 1..UiMaxSlices
  /\ maxDetectorHeight \in Heights
  /\ rays = <<>>
  /\ detectors = <<>>
  /\ displayed = <<>>
  /\ phase = "live"
  /\ isPlacingDetector = FALSE
  /\ isPlacingCompositeDetector = FALSE
  /\ isDraggingDetector = FALSE
  /\ selectedDetectorIndex = null
  /\ wasDragging = FALSE
  /\ pendingRays = FALSE
  /\ pendingBins = FALSE
  /\ pendingDrag = FALSE
  /\ plotClosure = [candleData |-> <<>>, numRays |-> numRays]
  /\ InteractionAtRest

(* importing data sets candleData, a dependency of the useCallback that    *)
(* makes handlePlotSunburstsAtHighs: the handler is made anew and closes   *)
(* over the createRayBurstWithCurrentSettings, and so the numRays, of that *)
(* render                                                                  *)
setCandleData(data) ==
  /\ Idle /\ ~isDraggingDetector
  /\ plotClosure' = [candleData |-> data, numRays |-> numRays]
  /\ UNCHANGED <<pointer, pan, refs, phase, variant, rays, numRays, detectors, numSlices, maxDetectorHeight,
                 displayed, isPlacingDetector, isPlacingCompositeDetector, isDraggingDetector,
                 selectedDetectorIndex, wasDragging, pendingRays, pendingBins, pendingDrag>>

(* the handler of the "plot-sunbursts-at-highs" event, as last made; the   *)
(* chart is not panned, chartOffset.x = 0                                  *)
handlePlotSunburstsAtHighs ==
  /\ Idle /\ ~isDraggingDetector
  /\ Len(rays) + Len(plotClosure.candleData) <= ChartMaxBursts
  /\ IF Len(plotClosure.candleData) > 0
     THEN /\ rays' = rays \o
                 [i \in 1..Len(plotClosure.candleData) |->
                    createRayBurstWithCurrentSettings(variant, plotClosure.numRays,
                                                      plotClosure.candleData[i][1],
                                                      plotClosure.candleData[i][2],
                                                      chartCanvasWidth, chartCanvasHeight)]
          /\ pendingBins' = TRUE
     ELSE UNCHANGED <<rays, pendingBins>>
  /\ UNCHANGED <<pointer, pan, refs, plotClosure, phase, variant, numRays, detectors, numSlices, maxDetectorHeight,
                 displayed, isPlacingDetector, isPlacingCompositeDetector, isDraggingDetector,
                 selectedDetectorIndex, wasDragging, pendingRays, pendingDrag>>

(* onClick of the chart's canvas *)
chartHandleCanvasClick(clickX, clickY) ==
  /\ Idle /\ ~isDraggingDetector
  /\ UNCHANGED <<pan, isHorizontalRefLine, isVerticalRefLine,
                 plotClosure, phase, variant, numRays, numSlices, maxDetectorHeight, displayed,
                 isDraggingDetector, selectedDetectorIndex, pendingRays, pendingDrag>>
  /\ LET adjustedClickX == clickX - chartOffset
         clickedRefLineIndex == findReferenceLineAtPoint(adjustedClickX, clickY, referenceLines)
         clickedDetectorIndex == findDetectorAtPoint(adjustedClickX, clickY, detectors)
         clickedBurstIndex == findRayBurstAtPoint(adjustedClickX, clickY, rays)
     IN IF isPanning \/ wasDragging
        THEN /\ wasDragging' = FALSE
             /\ UNCHANGED <<rays, detectors, referenceLines, isPlacingDetector,
                            isPlacingCompositeDetector, pendingBins>>
        ELSE IF clickX < originX \/ clickY > originY \/ clickX > originX + chartWidth
        THEN UNCHANGED <<rays, detectors, referenceLines, isPlacingDetector,
                         isPlacingCompositeDetector, wasDragging, pendingBins>>
        ELSE IF clickedRefLineIndex # 0
        THEN /\ referenceLines' = RemoveAt(referenceLines, clickedRefLineIndex)
             /\ UNCHANGED <<rays, detectors, isPlacingDetector, isPlacingCompositeDetector,
                            wasDragging, pendingBins>>
        ELSE IF clickedDetectorIndex # 0
        THEN /\ detectors' = RemoveAt(detectors, clickedDetectorIndex)
             /\ pendingBins' = TRUE
             /\ UNCHANGED <<rays, referenceLines, isPlacingDetector, isPlacingCompositeDetector,
                            wasDragging>>
        ELSE IF isHorizontalRefLine \/ isVerticalRefLine
        THEN /\ referenceLines' = Append(referenceLines,
                                         [x |-> adjustedClickX, y |-> clickY,
                                          isHorizontal |-> isHorizontalRefLine])
             /\ UNCHANGED <<rays, detectors, isPlacingDetector, isPlacingCompositeDetector,
                            wasDragging, pendingBins>>
        ELSE IF isPlacingDetector \/ isPlacingCompositeDetector
        THEN /\ detectors' = Append(detectors,
                                    createDetector(adjustedClickX, clickY, numSlices,
                                                   maxDetectorHeight, isPlacingCompositeDetector))
             /\ isPlacingDetector' = FALSE
             /\ isPlacingCompositeDetector' = FALSE
             /\ pendingBins' = TRUE
             /\ UNCHANGED <<rays, referenceLines, wasDragging>>
        ELSE IF clickedBurstIndex # 0
        THEN /\ rays' = RemoveAt(rays, clickedBurstIndex)
             /\ pendingBins' = TRUE
             /\ UNCHANGED <<detectors, referenceLines, isPlacingDetector,
                            isPlacingCompositeDetector, wasDragging>>
        ELSE /\ rays' = Append(rays,
                               createRayBurstWithCurrentSettings(variant, numRays, adjustedClickX,
                                                                 clickY, propsWidth, propsHeight))
             /\ pendingBins' = TRUE
             /\ UNCHANGED <<detectors, referenceLines, isPlacingDetector,
                            isPlacingCompositeDetector, wasDragging>>

(* the chart's useEffect(..., [numRays]) *)
ChartRaysEffect ==
  /\ pendingRays
  /\ rays' = [b \in 1..Len(rays) |->
               createRayBurst(variant, rays[b].x, rays[b].y, numRays,
                              chartCanvasWidth, chartCanvasHeight)]
  /\ pendingRays' = FALSE
  /\ pendingBins' = TRUE
  /\ UNCHANGED <<pointer, pan, refs, plotClosure, phase, variant, numRays, detectors, numSlices, maxDetectorHeight,
                 displayed, isPlacingDetector, isPlacingCompositeDetector, isDraggingDetector,
                 selectedDetectorIndex, wasDragging, pendingDrag>>

ChartCapped ==
  /\ Len(rays') <= ChartMaxBursts
  /\ Len(detectors') <= UiMaxDetectors
  /\ Len(referenceLines') <= MaxReferenceLines

(* the chart restricted to what acts on its emitters *)
ChartNext ==
  \/ \E typed \in UiRayCounts \cup {0} : setNumRays(typed)
  \/ clearRays
  \/ \E data \in SeqsUpTo(CandleSpots, MaxCandles) : setCandleData(data)
  \/ handlePlotSunburstsAtHighs
  \/ \E x \in ChartXs, y \in ChartYs :
       chartHandleCanvasClick(x, y) /\ ChartCapped /\ UNCHANGED pointer
  \/ ChartRaysEffect
  \/ BinsEffect

SpecChart == ChartInit /\ [][ChartNext]_vars

(* ------------------- the chart component: its pointer ------------------- *)
(* the farthest the chart is panned, in grid steps *)
MaxPan == 1

(* onMouseDown of the chart's canvas; the axis areas scroll the data       *)
(* ranges, which no scene object depends on.  startPanPoint is kept        *)
(* relative to the canvas: only its differences are used                   *)
handleMouseDown(mouseX, mouseY) ==
  /\ Idle
  /\ UNCHANGED <<chartOffset, refs, plotClosure, phase, variant, rays, numRays, detectors, numSlices,
                 maxDetectorHeight, displayed, isPlacingDetector, isPlacingCompositeDetector,
                 wasDragging, pendingRays, pendingBins>>
  /\ LET isInChartArea ==
           mouseX >= originX /\ mouseY <= originY /\ mouseX <= originX + chartWidth
         adjustedMouseX == mouseX - chartOffset
         clickedDetectorIndex ==
           FindIndex({i \in 1..Len(detectors) :
                       isPointNearDetectorHandle(adjustedMouseX, mouseY, detectors[i])})
     IN IF clickedDetectorIndex # 0
        THEN /\ isDraggingDetector' = TRUE
             /\ selectedDetectorIndex' = clickedDetectorIndex
             /\ pendingDrag' = (~isDraggingDetector \/ selectedDetectorIndex # clickedDetectorIndex)
             /\ UNCHANGED <<isPanning, startPanPoint>>
        ELSE IF mouseY >= originY /\ mouseY <= propsHeight
        THEN UNCHANGED <<isDraggingDetector, selectedDetectorIndex, pendingDrag, isPanning,
                         startPanPoint>>
        ELSE IF mouseX <= originX /\ mouseY >= originY - chartHeight
        THEN UNCHANGED <<isDraggingDetector, selectedDetectorIndex, pendingDrag, isPanning,
                         startPanPoint>>
        ELSE IF isInChartArea
        THEN /\ isPanning' = TRUE
             /\ startPanPoint' = mouseX
             /\ UNCHANGED <<isDraggingDetector, selectedDetectorIndex, pendingDrag>>
        ELSE UNCHANGED <<isDraggingDetector, selectedDetectorIndex, pendingDrag, isPanning,
                         startPanPoint>>

(* onMouseMove of the chart's canvas *)
handleMouseMove(mouseX, mouseY) ==
  /\ Idle
  /\ UNCHANGED <<isPanning, refs, plotClosure, phase, variant, rays, numRays, numSlices,
                 maxDetectorHeight, displayed, isPlacingDetector, isPlacingCompositeDetector,
                 isDraggingDetector, selectedDetectorIndex, wasDragging, pendingRays, pendingBins>>
  /\ IF isPanning
     THEN /\ chartOffset' = chartOffset + (mouseX - startPanPoint)
          /\ Abs(chartOffset') <= MaxPan
          /\ startPanPoint' = mouseX
          /\ UNCHANGED <<detectors, pendingDrag>>
     ELSE IF isDraggingDetector /\ selectedDetectorIndex # null
     THEN /\ detectors' = SetCenterY(detectors, selectedDetectorIndex, mouseY)
          /\ pendingDrag' = (detectors' # detectors)
          /\ UNCHANGED <<chartOffset, startPanPoint>>
     ELSE UNCHANGED <<detectors, pendingDrag, chartOffset, startPanPoint>>

(* onMouseUp of the chart's canvas *)
handleMouseUp ==
  /\ Idle
  /\ wasDragging' = (IF isDraggingDetector THEN TRUE ELSE wasDragging)
  /\ isDraggingDetector' = FALSE
  /\ selectedDetectorIndex' = null
  /\ isPanning' = FALSE
  /\ UNCHANGED <<startPanPoint, chartOffset, refs, plotClosure, phase, variant, rays, numRays,
                 detectors, numSlices, maxDetectorHeight, displayed, isPlacingDetector,
                 isPlacingCompositeDetector, pendingRays, pendingBins, pendingDrag>>

(* onMouseLeave of the chart's canvas *)
handleMouseLeave ==
  /\ Idle
  /\ isDraggingDetector' = FALSE
  /\ selectedDetectorIndex' = null
  /\ isPanning' = FALSE
  /\ UNCHANGED <<startPanPoint, chartOffset, refs, plotClosure, phase, variant, rays, numRays,
                 detectors, numSlices, maxDetectorHeight, displayed, isPlacingDetector,
                 isPlacingCompositeDetector, wasDragging, pendingRays, pendingBins, pendingDrag>>

(* The mouse button over the chart's canvas, as over the ray-burst canvas; *)
(* "panned" is the button held after a move has panned the chart, and      *)
(* "pan released" the release that follows it, with its click to come at   *)
(* the place the pointer was last panned to                                *)
ChartPress(x, y) ==
  /\ pointer = "up"
  /\ pointer' = "down"
  /\ handleMouseDown(x, y)

ChartMove(x, y) ==
  /\ pointer \in {"up", "down", "panned"}
  /\ handleMouseMove(x, y)
  /\ pointer' = (IF chartOffset' # chartOffset THEN "panned" ELSE pointer)

ChartRelease ==
  /\ pointer \in {"down", "panned"}
  /\ pointer' = (IF pointer = "panned" THEN "pan released" ELSE "released")
  /\ handleMouseUp

ChartGeneratedClick(x, y) ==
  /\ pointer \in {"released", "pan released"}
  /\ pointer = "pan released" => x = startPanPoint
  /\ pointer' = "up"
  /\ chartHandleCanvasClick(x, y)

ChartLeave ==
  /\ pointer \in {"down", "panned"}
  /\ pointer' = "up"
  /\ handleMouseLeave

(* pointer positions inside the plot area, and on its lower edge for the  *)
(* moves                                                                   *)
PlotXs == {originX + 1, originX + chartWidth}
PlotYs == {originY - 1}
MoveYs == {originY - 1, originY}

ChartPointerNext ==
  \/ pointer = "up" /\ PlaceDetectorButton
  \/ \E x \in PlotXs, y \in PlotYs : ChartPress(x, y)
  \/ \E x \in PlotXs, y \in MoveYs : ChartMove(x, y)
  \/ ChartRelease
  \/ \E x \in PlotXs, y \in PlotYs : ChartGeneratedClick(x, y) /\ ChartCapped
  \/ ChartLeave
  \/ BinsEffect
  \/ DragEffect

SpecChartPointer == ChartInit /\ [][ChartPointerNext]_vars

(* ------------------------ helpers of the claims ------------------------ *)
(* the (emitter, probe) pairs of the scene, by index *)
ProbePairs == {p \in (1..Len(rays)) \X (1..8) : p[2] <= Len(rays[p[1]].rays)}

Crossing(p, detector) == calculateIntersection(rays[p[1]].rays[p[2]], rays[p[1]], detector.x)

Regular == {d \in 1..Len(detectors) : ~detectors[d].isComposite}
Composite == {d \in 1..Len(detectors) : detectors[d].isComposite}

(* top + i*binSize <= y < top + (i+1)*binSize, for h > 0, with             *)
(* top = centerY - h/2 and binSize = h/n; both sides multiplied by 2*n     *)
InBinInterval(y, centerY, i, n, h) ==
  LET top2n == (2 * centerY - h) * n
  IN top2n + 2 * i * h <= 2 * n * y /\ 2 * n * y < top2n + 2 * (i + 1) * h

(* spec 8, Scenario A, as stated *)
ScenarioA ==
  updateDetectorBins(<<createDetector(50, 0, 10, 100, FALSE)>>,
                     <<[x |-> 0, y |-> 0, rays |-> <<[angle |-> 0, length |-> Int2Num(100)]>>]>>,
                     10, 100)[1].bins
    = [i \in 1..10 |-> IF i = 6 THEN 1 ELSE 0]

(* C1: after a recompute sweep, bin i of every non-composite detector      *)
(* counts the (emitter, probe) pairs whose crossing y lies in              *)
(* [top + i*binSize, top + (i+1)*binSize); Scenario A gives bins[5] = 1    *)
(* and every other bin 0.                                                  *)
C1_BinsCountCrossings ==
  /\ ScenarioA
  /\ phase = "swept" =>
       \A d \in Regular :
         /\ Len(detectors[d].bins) = numSlices
         /\ \A i \in 0..(numSlices - 1) :
              detectors[d].bins[i + 1] =
                Cardinality({p \in ProbePairs :
                              /\ Crossing(p, detectors[d]).hit
                              /\ InBinInterval(Crossing(p, detectors[d]).y,
                                               detectors[d].centerY, i, numSlices,
                                               maxDetectorHeight)})

(* a swept detector with two crossings in one bin, a crossing in another   *)
(* bin and a crossing outside its span                                     *)
C1_Witness ==
  /\ phase = "swept"
  /\ \E d \in Regular :
       /\ \E i, j \in 1..Len(detectors[d].bins) :
            i # j /\ detectors[d].bins[i] >= 2 /\ detectors[d].bins[j] >= 1
       /\ SeqSum(detectors[d].bins) <
            Cardinality({p \in ProbePairs : Crossing(p, detectors[d]).hit})


(* the detectors the claims call qualifying sources of detector c:         *)
(* non-composite and strictly left of it                                   *)
SourceIdx(c) ==
  {s \in 1..Len(detectors) : ~detectors[s].isComposite /\ detectors[s].x < detectors[c].x}

(* the (source, source bin index) pairs of composite c *)
SourceBins(c) ==
  {sp \in SourceIdx(c) \X (0..(MaxSlices + 1)) : sp[2] < Len(detectors[sp[1]].bins)}

RECURSIVE SumBins(_)
SumBins(S) ==
  IF S = {} THEN 0
  ELSE LET sp == CHOOSE x \in S : TRUE
       IN detectors[sp[1]].bins[sp[2] + 1] + SumBins(S \ {sp})

(* twice numSlices times the world y of the centre of source bin sp,       *)
(* sourceTop + (j + 0.5)*binSize, and of the top of detector c             *)
Centre2n(sp) ==
  (2 * detectors[sp[1]].centerY - maxDetectorHeight) * numSlices
    + (2 * sp[2] + 1) * maxDetectorHeight

Top2n(c) == (2 * detectors[c].centerY - maxDetectorHeight) * numSlices

(* floor((centre - top) / H * numSlices) = k, for H > 0 *)
ProjectsTo(sp, c, k) ==
  /\ 2 * maxDetectorHeight * k <= Centre2n(sp) - Top2n(c)
  /\ Centre2n(sp) - Top2n(c) < 2 * maxDetectorHeight * (k + 1)

(* C2: calculateCompositeBins returns numSlices entries; entry k is the    *)
(* sum of the source bins whose centre projects onto target index k, so    *)
(* bins projecting onto the same index add and bins projecting outside     *)
(* [0, numSlices) contribute to no entry.                                  *)
C2_CompositeBinsAreProjectedSums ==
  phase = "rendered" =>
    \A c \in Composite :
      /\ Len(displayed[c]) = numSlices
      /\ \A k \in 0..(numSlices - 1) :
           displayed[c][k + 1] = SumBins({sp \in SourceBins(c) : ProjectsTo(sp, c, k)})

(* an entry fed by two non-empty source bins, next to a non-empty source   *)
(* bin that projects outside the target                                    *)
C2_Witness ==
  /\ phase = "rendered"
  /\ \E c \in Composite :
       /\ \E k \in 0..(numSlices - 1) :
            Cardinality({sp \in SourceBins(c) :
                          ProjectsTo(sp, c, k) /\ detectors[sp[1]].bins[sp[2] + 1] > 0}) >= 2
       /\ \E sp \in SourceBins(c) :
            /\ detectors[sp[1]].bins[sp[2] + 1] > 0
            /\ \A k \in 0..(numSlices - 1) : ~ProjectsTo(sp, c, k)

(* the centre of source bin sp lies outside [top, top + H) of detector c *)
OutsideSpan(sp, c) ==
  \/ Centre2n(sp) < Top2n(c)
  \/ Centre2n(sp) >= Top2n(c) + 2 * numSlices * maxDetectorHeight

(* C3: the aggregated histogram of a composite sums to the total of its    *)
(* qualifying sources' bins, less the counts of the source bins whose      *)
(* centre falls outside the composite's vertical span.                     *)
C3_Conservation ==
  phase = "rendered" =>
    \A c \in Composite :
      SeqSum(displayed[c]) + SumBins({sp \in SourceBins(c) : OutsideSpan(sp, c)})
        = SumBins(SourceBins(c))

(* a composite that keeps some counts and discards others *)
C3_Witness ==
  /\ phase = "rendered"
  /\ \E c \in Composite :
       /\ SeqSum(displayed[c]) > 0
       /\ SumBins({sp \in SourceBins(c) : OutsideSpan(sp, c)}) > 0
       /\ Cardinality(SourceIdx(c)) >= 2


(* source s is offset from detector c by a whole number of bins:           *)
(* centerY(s) - centerY(c) = Shift(s, c) * binSize                         *)
Aligned(s, c) ==
  ((detectors[s].centerY - detectors[c].centerY) * numSlices) % maxDetectorHeight = 0

Shift(s, c) ==
  ((detectors[s].centerY - detectors[c].centerY) * numSlices) \div maxDetectorHeight

(* bins[j] of detector s, 0 outside the array *)
BinAt(s, j) ==
  IF j >= 0 /\ j < Len(detectors[s].bins) THEN detectors[s].bins[j + 1] ELSE 0

RECURSIVE SumShifted(_, _, _)
SumShifted(S, c, m) ==
  IF S = {} THEN 0
  ELSE LET s == CHOOSE x \in S : TRUE
       IN BinAt(s, m - Shift(s, c)) + SumShifted(S \ {s}, c, m)

(* spec 8, Scenario C: two sources left of a composite, one level with it  *)
(* and one a bin lower, each with a single hit in bin 1                    *)
ScenarioC ==
  calculateCompositeBins(
    [x |-> 30, centerY |-> 0, height |-> 4, bins |-> Zeros(4), isComposite |-> TRUE],
    <<[x |-> 10, centerY |-> 0, height |-> 4, bins |-> <<0, 1, 0, 0>>, isComposite |-> FALSE],
      [x |-> 20, centerY |-> 1, height |-> 4, bins |-> <<0, 1, 0, 0>>, isComposite |-> FALSE]>>,
    4, 4) = <<0, 1, 1, 0>>

(* C4: a source offset from the composite by exactly k bins has each of    *)
(* its bins j added to composite bin j + k; two sources whose offsets      *)
(* differ by one bin, each with hits in the same bin index, give two       *)
(* separate non-zero composite bins.                                       *)
C4_RemapIsCoordinateAware ==
  /\ ScenarioC
  /\ phase = "rendered" =>
    \A c \in Composite :
      /\ (\A s \in SourceIdx(c) : Aligned(s, c)) =>
           \A m \in 0..(numSlices - 1) :
             displayed[c][m + 1] = SumShifted(SourceIdx(c), c, m)
      /\ \A s1, s2 \in SourceIdx(c) :
           (Aligned(s1, c) /\ Aligned(s2, c) /\ Shift(s1, c) = Shift(s2, c) + 1) =>
             \A j \in 0..(numSlices - 1) :
               (/\ BinAt(s1, j) > 0 /\ BinAt(s2, j) > 0
                /\ j + Shift(s2, c) >= 0 /\ j + Shift(s1, c) < numSlices) =>
                 /\ displayed[c][j + Shift(s1, c) + 1] >= BinAt(s1, j)
                 /\ displayed[c][j + Shift(s2, c) + 1] >= BinAt(s2, j)

(* two sources one bin apart with hits in the same bin index j, drawn in   *)
(* the two composite bins j + k and j + k + 1, where an index sum would    *)
(* have merged them                                                        *)
C4_Witness ==
  /\ phase = "rendered"
  /\ \E c \in Composite : \E s1, s2 \in SourceIdx(c) :
       /\ Cardinality(SourceIdx(c)) = 2
       /\ Aligned(s1, c) /\ Aligned(s2, c) /\ Shift(s1, c) = Shift(s2, c) + 1
       /\ \E j \in 0..(numSlices - 1) :
            /\ BinAt(s1, j) > 0 /\ BinAt(s2, j) > 0
            /\ j + Shift(s2, c) >= 0 /\ j + Shift(s1, c) < numSlices
            /\ displayed[c][j + Shift(s1, c) + 1] > 0
            /\ displayed[c][j + Shift(s2, c) + 1] > 0
            /\ displayed[c][j + 1] # BinAt(s1, j) + BinAt(s2, j)

RECURSIVE SumAtIndex(_, _)
SumAtIndex(S, i) ==
  IF S = {} THEN 0
  ELSE LET s == CHOOSE x \in S : TRUE
       IN BinAt(s, i) + SumAtIndex(S \ {s}, i)

PointsRight(k) == k \in {0, 1, 7}

(* the (emitter, probe) pairs detector d can register at all *)
Eligible(d) ==
  {p \in ProbePairs :
     PointsRight(rays[p[1]].rays[p[2]].angle) /\ detectors[d].x > rays[p[1]].x}

BoundaryDistances(x, y, k) ==
  (IF Cos(k).n > 0 THEN {IntDivNum(canvasWidth - x, Cos(k))}
   ELSE IF Cos(k).n < 0 THEN {IntDivNum(0 - x, Cos(k))} ELSE {})
  \cup
  (IF Sin(k).n > 0 THEN {IntDivNum(canvasHeight - y, Sin(k))}
   ELSE IF Sin(k).n < 0 THEN {IntDivNum(0 - y, Sin(k))} ELSE {})

(* the probe of pair p starts in the canvas rectangle and travels a        *)
(* positive distance before it leaves it                                   *)
EntersCanvas(p) ==
  \A u \in BoundaryDistances(rays[p[1]].x, rays[p[1]].y, rays[p[1]].rays[p[2]].angle) :
    NumGt(u, Zero)

(* C7: a probe registers a hit only if 0 <= t <= probe.length, with the    *)
(* length calculateRayLength gave it, so the crossing it registers is not  *)
(* beyond the point where the probe leaves the canvas rectangle: the       *)
(* crossing point lies in [0, canvasWidth] x [0, canvasHeight].  Stated    *)
(* for the probes that enter the rectangle.                                *)
C7_NoHitBeyondBoundary ==
  \A d \in 1..Len(detectors) : \A p \in ProbePairs :
    (EntersCanvas(p) /\ Crossing(p, detectors[d]).hit) =>
      LET ray == rays[p[1]].rays[p[2]]
          t == IntDivNum(detectors[d].x - rays[p[1]].x, Cos(ray.angle))
      IN /\ ~NumLt(t, Zero) /\ ~NumGt(t, ray.length)
         /\ detectors[d].x <= canvasWidth
         /\ 0 <= Crossing(p, detectors[d]).y
         /\ Crossing(p, detectors[d]).y <= canvasHeight

(* C8: for an origin inside the rectangle, calculateRayLength returns the  *)
(* distance the probe travels before leaving it: the smallest positive of  *)
(* the signed distances to the four boundaries.  Stated for the probes     *)
(* that enter the rectangle.                                               *)
C8_RayLengthIsExitDistance ==
  \A p \in ProbePairs :
    EntersCanvas(p) =>
      LET ray == rays[p[1]].rays[p[2]]
          dists == BoundaryDistances(rays[p[1]].x, rays[p[1]].y, ray.angle)
      IN /\ ray.length \in dists
         /\ \A u \in dists : ~NumLt(u, ray.length)

(* ----------------------------- claim C9 --------------------------------- *)
(* detector i does not feed composite c by the claim: it is composite, or  *)
(* it is not strictly to the left of c                                     *)
Irrelevant(d, c) == d.isComposite \/ d.x >= detectors[c].x

Ones(n) == [j \in 1..n |-> 1]

(* the detectors other than c that are irrelevant to composite c *)
Others(c) == {j \in 1..Len(detectors) : j # c /\ Irrelevant(detectors[j], c)}

(* a new detector that is irrelevant to composite c, with some bins *)
Newcomers(c) ==
  {[createDetector(x, y, numSlices, maxDetectorHeight, k) EXCEPT !.bins = Ones(numSlices)] :
     x \in Xs, y \in Ys, k \in BOOLEAN}

(* the detector lists that differ from the current one by one change to a  *)
(* detector that is irrelevant to composite c: removed, moved, its bins    *)
(* changed, or a new one added; self is composite c in the changed list    *)
IrrelevantChanges(c) ==
  {[self |-> detectors[c], dets |-> RemoveAt(detectors, i)] : i \in Others(c)}
  \cup {[self |-> detectors[c], dets |-> [detectors EXCEPT ![i].centerY = y]] :
          i \in Others(c), y \in Ys}
  \cup {[self |-> detectors[c],
         dets |-> [detectors EXCEPT ![i].bins = Ones(Len(detectors[i].bins))]] :
          i \in Others(c)}
  \cup {[self |-> [detectors[c] EXCEPT !.bins = Ones(Len(detectors[c].bins))],
         dets |-> [detectors EXCEPT ![c].bins = Ones(Len(detectors[c].bins))]]}
  \cup {[self |-> detectors[c], dets |-> Append(detectors, d)] :
          d \in {v \in Newcomers(c) : Irrelevant(v, c)}}

(* C9: the histogram displayed for a composite detector depends only on    *)
(* the non-composite detectors strictly to its left (and on numSlices, the *)
(* height and its own centerY): adding, removing, moving or changing the   *)
(* bins of any composite detector, or of any detector with x >= the        *)
(* composite's x, leaves the displayed histogram unchanged.                *)
C9_CompositeDependsOnLeftRegularOnly ==
  phase = "rendered" =>
    \A c \in Composite : \A ch \in IrrelevantChanges(c) :
      ResolvedBins(ch.self, ch.dets, numSlices, maxDetectorHeight) = displayed[c]

(* a composite shows hits while another composite stands to its left *)
C9_Witness ==
  /\ phase = "rendered"
  /\ \E c \in Composite :
       /\ SeqSum(displayed[c]) > 0
       /\ \E i \in Composite : detectors[i].x < detectors[c].x

(* ----------------------------- claim C10 -------------------------------- *)
(* the histogram of a detector created afresh where detector d stands *)
FromScratch(d) ==
  updateDetectorBins(<<createDetector(d.x, d.centerY, numSlices, maxDetectorHeight, FALSE)>>,
                     rays, numSlices, maxDetectorHeight)[1].bins

(* C10: in every state reached after a recompute sweep (no effect is left  *)
(* waiting), every non-composite detector has bins.length = numSlices, and *)
(* its bins are those of a fresh array counted from zero: nothing of the   *)
(* previous array, neither its length nor its counts, survives the sweep.  *)
C10_SweepReplacesBins ==
  Idle =>
    \A d \in Regular :
      /\ Len(detectors[d].bins) = numSlices
      /\ detectors[d].bins = FromScratch(detectors[d])

(* bins of another length, with hits, were on screen for a detector that   *)
(* now, after the sweep, has bins of the current length, with hits         *)
C10_Witness ==
  /\ Idle
  /\ \E d \in Regular :
       /\ d <= Len(displayed)
       /\ Len(displayed[d]) # numSlices
       /\ SeqSum(displayed[d]) > 0
       /\ Len(detectors[d].bins) = numSlices
       /\ SeqSum(detectors[d].bins) > 0

(* ----------------------------- claim C11 -------------------------------- *)
(* the stored bins of every non-composite detector are the histogram of    *)
(* the current emitters, numSlices, height and centerY                     *)
BinsUpToDate ==
  \A d \in Regular :
    /\ Len(detectors[d].bins) = numSlices
    /\ detectors[d].bins = FromScratch(detectors[d])

(* C11: no presentation pass reads stale bins: whenever renderCanvas draws *)
(* the detectors, or aggregates them into a composite, every non-composite *)
(* detector's bins have length numSlices and are the recompute over the    *)
(* current emitters, numSlices, height and centerY.                        *)
C11_RenderReadsFreshBins == [][renderCanvas => BinsUpToDate]_vars

(* ----------------------------- claim C12 -------------------------------- *)
(* C12: after any sequence of user operations (placing, deleting, clearing,*)
(* dragging, changing numRays, numSlices or the height), once the pending  *)
(* recompute effects have run, every non-composite detector's bins are the *)
(* histogram of the current state: bin i counts the probes of the current  *)
(* emitters that cross the detector in bin i of its span at its current    *)
(* centerY, the one a drag left it at included.                            *)
C12_BinsFollowOperations ==
  Idle =>
    \A d \in Regular :
      /\ Len(detectors[d].bins) = numSlices
      /\ \A i \in 0..(numSlices - 1) :
           detectors[d].bins[i + 1] =
             Cardinality({p \in ProbePairs :
                           /\ Crossing(p, detectors[d]).hit
                           /\ InBinInterval(Crossing(p, detectors[d]).y,
                                            detectors[d].centerY, i, numSlices,
                                            maxDetectorHeight)})

(* a drag has ended with the detector on a row where no click places one,  *)
(* and it shows hits there                                                 *)
C12_Witness ==
  /\ Idle /\ wasDragging /\ ~isDraggingDetector
  /\ \E d \in Regular :
       /\ detectors[d].centerY \notin UiYs
       /\ SeqSum(detectors[d].bins) > 0

(* ----------------------------- claim C13 -------------------------------- *)
(* emitter b has exactly numRays probes, probe i at angle 2*pi*i/numRays,  *)
(* with a length calculateRayLength gives from the emitter's origin        *)
ProbesMatch(b) ==
  /\ Len(b.rays) = numRays
  /\ \A i \in 1..Len(b.rays) :
       /\ b.rays[i].angle = AngleOf(i - 1, numRays)
       /\ b.rays[i].length \in
            {calculateRayLength(variant, b.x, b.y, b.rays[i].angle, w, propsHeight) :
               w \in {chartCanvasWidth, propsWidth}}

(* C13: the probe count is global: after any sequence of emitter           *)
(* placements (by click or by the bulk plot-at-highs action), deletions    *)
(* and numRays changes, once the numRays regeneration has run every        *)
(* emitter has exactly numRays probes, probe i at angle 2*pi*i/numRays     *)
(* with a length computed from its origin, and the regeneration leaves     *)
(* every emitter's (x, y) as placed.                                       *)
C13_ProbeCountIsGlobal ==
  [][/\ ~pendingRays' => \A b \in 1..Len(rays') : ProbesMatch(rays'[b])
     /\ ChartRaysEffect =>
          /\ Len(rays') = Len(rays)
          /\ \A b \in 1..Len(rays) : rays'[b].x = rays[b].x /\ rays'[b].y = rays[b].y]_vars

(* ----------------------------- claim C14 -------------------------------- *)
(* arrays a detector may hold from an earlier sweep or an earlier setting *)
StoredBins == {[i \in 1..k |-> 5] : k \in {0, numSlices, MaxSlices + 1}}

WithStoredBins(dets, stored) ==
  [d \in 1..Len(dets) |->
    IF dets[d].isComposite THEN dets[d] ELSE [dets[d] EXCEPT !.bins = stored]]

(* C14: updateDetectorBins and calculateCompositeBins have no hidden       *)
(* state: a recompute is a full rebuild, so the sweep applied to its own   *)
(* output gives the same bins, the bins a detector held before the sweep   *)
(* do not enter its result, and the presentation pass repeated on the      *)
(* same detectors gives the same displayed bins.                           *)
C14_RecomputeIsIdempotent ==
  LET swept == updateDetectorBins(detectors, rays, numSlices, maxDetectorHeight)
  IN /\ phase \in {"swept", "rendered"} => swept = detectors
     /\ updateDetectorBins(swept, rays, numSlices, maxDetectorHeight) = swept
     /\ \A stored \in StoredBins :
          updateDetectorBins(WithStoredBins(detectors, stored), rays, numSlices,
                             maxDetectorHeight) = swept
     /\ phase = "rendered" => RenderPass(detectors, numSlices, maxDetectorHeight) = displayed

C14_Witness ==
  /\ phase = "rendered"
  /\ \E d \in Regular : SeqSum(detectors[d].bins) > 0
  /\ \E c \in Composite : SeqSum(displayed[c]) > 0

(* ----------------------------- claim C15 -------------------------------- *)
(* C15: a presentation pass (calculateCompositeBins and the scaling of     *)
(* the bars) never changes collector state: the detectors, and so every    *)
(* source's bins array and every composite's stored bins, are after the    *)
(* pass what they were before it, and so are the emitters.                 *)
C15_RenderLeavesDetectors ==
  [][SceneRender => /\ detectors' = detectors
                    /\ rays' = rays
                    /\ \A d \in 1..Len(detectors) : detectors'[d].bins = detectors[d].bins]_vars

C15_Witness ==
  /\ phase = "rendered"
  /\ \E c \in Composite :
       /\ SeqSum(displayed[c]) > 0
       /\ detectors[c].bins = Zeros(numSlices)
       /\ \E d \in Regular : detectors[d].x < detectors[c].x /\ SeqSum(detectors[d].bins) > 0

(* ----------------------------- claim C16 -------------------------------- *)
HoldingBins(dets, stored) == [d \in 1..Len(dets) |-> [dets[d] EXCEPT !.bins = stored]]

(* C16: a recompute sweep changes nothing but the bins of non-composite    *)
(* detectors: it keeps the number and the order of the detectors and each  *)
(* detector's x, centerY, height and isComposite, and it returns every     *)
(* composite detector as it was, its stored bins untouched.                *)
C16_SweepChangesRegularBinsOnly ==
  \A stored \in StoredBins :
    LET before == HoldingBins(detectors, stored)
        after == updateDetectorBins(before, rays, numSlices, maxDetectorHeight)
    IN /\ Len(after) = Len(before)
       /\ \A d \in 1..Len(before) :
            /\ DOMAIN after[d] = DOMAIN before[d]
            /\ \A f \in DOMAIN before[d] \ {"bins"} : after[d][f] = before[d][f]
            /\ before[d].isComposite => after[d] = before[d]

C16_Witness ==
  /\ phase = "swept"
  /\ \E c \in Composite :
       /\ detectors[c].bins = Zeros(numSlices)
       /\ SeqSum(ProcessBursts(Zeros(numSlices), 1, rays, detectors[c], numSlices,
                               maxDetectorHeight)) > 0
  /\ \E d \in Regular : SeqSum(detectors[d].bins) > 0

(* ----------------------------- claim C17 -------------------------------- *)
BinIndexOf(p, detector) ==
  BinIndex(Crossing(p, detector).y, detector.centerY, numSlices, maxDetectorHeight)

(* the hits on a detector whose bin index is outside 0..numSlices-1 *)
OutOfRange(detector) ==
  {p \in ProbePairs : /\ Crossing(p, detector).hit
                      /\ ~(BinIndexOf(p, detector) \in 0..(numSlices - 1))}

MaxShift == 4
ShiftedYs == (0 - MaxShift)..(canvasHeight + MaxShift)

MovedTo(detector, y) == [detector EXCEPT !.centerY = y]

(* no source, or every source at least one detector height away *)
TotalLoss(detector, sourceDetectors) ==
  \A s \in 1..Len(sourceDetectors) :
    Abs(detector.centerY - sourceDetectors[s].centerY) >= maxDetectorHeight

(* C18: calculateCompositeBins returns the all-zero histogram of length    *)
(* numSlices when no source bin projects into the composite's span: with   *)
(* no qualifying source, or with the composite's centerY at least one full *)
(* detector height away from every source's centerY.                       *)
C18_NoProjectionGivesZeros ==
  phase \in {"swept", "rendered"} =>
    \A c \in Composite : \A y \in ShiftedYs :
      LET moved == MovedTo(detectors[c], y)
          sourceDetectors == SourcesOf(moved, detectors)
          bins == calculateCompositeBins(moved, sourceDetectors, numSlices, maxDetectorHeight)
      IN /\ Len(bins) = numSlices
         /\ TotalLoss(moved, sourceDetectors) => bins = Zeros(numSlices)

C18_Witness ==
  /\ phase = "rendered"
  /\ \E c \in Composite :
       /\ SeqSum(displayed[c]) > 0
       /\ \E y \in ShiftedYs :
            TotalLoss(MovedTo(detectors[c], y), SourcesOf(detectors[c], detectors))
  /\ \E c \in Composite : SourcesOf(detectors[c], detectors) = <<>>

(* ----------------------------- claim C19 -------------------------------- *)
ColorBandRanges == {9, 100}

(* spec 8: bins [2, 5, 5, 1] *)
TiedMaxima == pocIndex(<<2, 5, 5, 1>>) = 1

(* C19: whenever at least one bin equals maxIntensity = max(max(bins), 1), *)
(* pocIndex is the smallest index i with bins[i] = maxIntensity (bins      *)
(* [2, 5, 5, 1] give index 1), and only the bin at that index gets the     *)
(* point-of-control colour, also when other bins hold the same maximum.    *)
C19_PointOfControlIsFirstMaximum ==
  /\ TiedMaxima
  /\ \A d \in 1..Len(displayed) :
       LET bins == displayed[d]
           peaks == {i \in 0..(Len(bins) - 1) : bins[i + 1] = maxIntensity(bins)}
       IN /\ maxIntensity(bins) >= 1
          /\ \A i \in 1..Len(bins) : bins[i] <= maxIntensity(bins)
          /\ peaks # {} =>
               /\ pocIndex(bins) \in peaks
               /\ \A i \in peaks : pocIndex(bins) <= i
               /\ \A r \in ColorBandRanges : \A i \in 0..(Len(bins) - 1) :
                    BarColors(bins, numSlices, r)[i + 1] = "yellow" <=> i = pocIndex(bins)

C19_Witness ==
  /\ phase = "rendered"
  /\ \E d \in 1..Len(displayed) :
       /\ Len(displayed[d]) = 3
       /\ displayed[d][1] < displayed[d][2]
       /\ displayed[d][2] = displayed[d][3]

(* ----------------------------- claim C20 -------------------------------- *)
(* a bar width [num, den] is the number w *)
IsWidth(width, w) == width.num = w * width.den

ScenarioBBins == <<1, 3, 2, 4, 1>>
ScenarioBWidths == <<25, 75, 50, 100, 25>>

(* C20: for bins [1, 3, 2, 4, 1] with amplification = 1 and maxBarWidth =  *)
(* 100, maxIntensity is 4 and the bar widths are [25, 75, 50, 100, 25]: a  *)
(* bin with 1 hit gets 25% of maxBarWidth, the bin with the maximum count  *)
(* gets 100% of maxBarWidth.                                               *)
C20_ScenarioBBarWidths ==
  /\ maxIntensity(ScenarioBBins) = 4
  /\ \A i \in 1..Len(ScenarioBBins) :
       IsWidth(BarWidths(ScenarioBBins, 100, 1)[i], ScenarioBWidths[i])
  /\ \A d \in 1..Len(displayed) : \A i \in 1..Len(displayed[d]) :
       displayed[d][i] = maxIntensity(displayed[d]) =>
         IsWidth(BarWidths(displayed[d], 100, 1)[i], 100)

(* ----------------------------- claim C21 -------------------------------- *)
MaxBarWidths == {1, 3, 100}
Amplifications == {1, 2, 10}

(* fractions with positive denominators *)
FracLeq(a, b) == a.num * b.den <= b.num * a.den

(* max(max(bins), 1), by its defining property *)
Largest(bins) ==
  CHOOSE m \in {bins[i] : i \in 1..Len(bins)} \cup {1} :
    \A k \in {bins[i] : i \in 1..Len(bins)} \cup {1} : k <= m

(* C21: for every bin with value v, barWidth = 0 when v = 0 and otherwise  *)
(* (v / maxIntensity) * min(maxBarWidth, maxIntensity * amplification)     *)
(* with maxIntensity = max(max(bins), 1); so 0 <= barWidth <= maxBarWidth, *)
(* barWidth is non-decreasing in v within one histogram, and the width of  *)
(* the point-of-control bin is min(maxBarWidth, maxIntensity *             *)
(* amplification).                                                         *)
C21_BarWidthFormula ==
  \A d \in 1..Len(displayed) : \A maxBarWidth \in MaxBarWidths : \A amplification \in Amplifications :
    LET bins == displayed[d]
        widths == BarWidths(bins, maxBarWidth, amplification)
        cap == IF maxBarWidth <= Largest(bins) * amplification
               THEN maxBarWidth ELSE Largest(bins) * amplification
    IN /\ maxIntensity(bins) = Largest(bins)
       /\ \A i \in 1..Len(bins) :
            /\ widths[i].den > 0
            /\ bins[i] = 0 => widths[i].num = 0
            /\ bins[i] > 0 => widths[i].num * Largest(bins) = bins[i] * cap * widths[i].den
            /\ widths[i].num >= 0
            /\ widths[i].num <= maxBarWidth * widths[i].den
            /\ \A j \in 1..Len(bins) : bins[i] <= bins[j] => FracLeq(widths[i], widths[j])
       /\ pocIndex(bins) >= 0 => IsWidth(widths[pocIndex(bins) + 1], cap)

C21_Witness ==
  /\ phase = "rendered"
  /\ \E d \in 1..Len(displayed) :
       /\ \E i, j, k \in 1..Len(displayed[d]) :
            /\ displayed[d][i] = 0
            /\ 0 < displayed[d][j]
            /\ displayed[d][j] < displayed[d][k]
       /\ \E m \in MaxBarWidths :
            /\ m < maxIntensity(displayed[d]) * 2
            /\ IsWidth(BarWidths(displayed[d], m, 2)[pocIndex(displayed[d]) + 1], m)

(* ----------------------------- claim C22 -------------------------------- *)
(* values the colour-band input gives, in hundredths: parseFloat(value) || *)
(* 0.997 is never 0 and may be negative or above 1                         *)
PositiveBandRanges == {9, 100, 150}
TypedBandRanges == PositiveBandRanges \cup {0 - 150}

Tiers == <<"light green", "green", "orange", "red", "blue">>
TierOf(color) == CHOOSE t \in 1..5 : Tiers[t] = color
Thresholds == <<band1, band2, band3, band4>>

(* distanceFraction <= threshold * r, as a comparison of two fractions *)
NotExceeded(distance, n, r, threshold) ==
  LET excess == 2 * 100 * 100 * 10000 * distance - threshold * r * r * n
  IN excess = 0 \/ (excess < 0 /\ r > 0) \/ (excess > 0 /\ r < 0)

(* the tiers of the bars drawn for bins with colour-band range r *)
TierLaw(bins, r) ==
  LET colors == BarColors(bins, numSlices, r)
      poc == pocIndex(bins)
      drawn == {i \in 0..(Len(bins) - 1) : bins[i + 1] > 0}
  IN /\ \A i \in drawn :
          /\ colors[i + 1] \in {"yellow"} \cup {Tiers[t] : t \in 1..5}
          /\ colors[i + 1] = "yellow" <=> i = poc
          /\ i # poc =>
               LET t == TierOf(colors[i + 1])
               IN /\ \A u \in 1..(t - 1) : ~NotExceeded(Abs(i - poc), numSlices, r, Thresholds[u])
                  /\ t <= 4 => NotExceeded(Abs(i - poc), numSlices, r, Thresholds[t])
     /\ \A i, j \in drawn \ {poc} :
          Abs(i - poc) <= Abs(j - poc) => TierOf(colors[i + 1]) <= TierOf(colors[j + 1])

C23_NumSlicesIsPositive ==
  /\ numSlices \in Nat /\ numSlices >= 1
  /\ \A typed \in TypedTexts : onChangeText(typed) \in 1..UiMaxSlices
  /\ \A d \in Regular : Idle => Len(detectors[d].bins) >= 1

C23_Witness ==
  /\ numSlices = 1
  /\ \A typed \in {<<>>, <<"a">>, <<"0">>, <<"-", "3">>} :
       parseInt(typed) # [nan |-> FALSE, value |-> 1] /\ onChangeText(typed) = numSlices
  /\ Idle
  /\ \E d \in Regular : SeqSum(detectors[d].bins) > 0

(* ----------------------------- claim C24 -------------------------------- *)
(* C24: every detector's height field equals the global detector-height    *)
(* setting in every reachable state, also after the setting is changed     *)
(* while detectors exist, so that the stored height is the height used to  *)
(* bin and draw the detector.                                              *)
C24_HeightFollowsSetting ==
  Idle => \A d \in 1..Len(detectors) : detectors[d].height = maxDetectorHeight

(* ----------------------------- claim C25 -------------------------------- *)
AllZero(bins) == \A i \in 1..Len(bins) : bins[i] = 0

(* C25: when every bin of a resolved histogram is zero, maxIntensity is 1, *)
(* no bin equals maxIntensity (no index is the point of control), every    *)
(* bar width is 0, no bin gets the point-of-control tier, and nothing is   *)
(* divided by zero.                                                        *)
C25_EmptyHistogramHasNoPointOfControl ==
  \A d \in 1..Len(displayed) :
    AllZero(displayed[d]) =>
      /\ maxIntensity(displayed[d]) = 1
      /\ pocIndex(displayed[d]) = 0 - 1
      /\ \A maxBarWidth \in MaxBarWidths : \A amplification \in Amplifications :
           \A i \in 1..Len(displayed[d]) :
             LET width == BarWidths(displayed[d], maxBarWidth, amplification)[i]
             IN width.den # 0 /\ width.num = 0
      /\ \A r \in TypedBandRanges : \A i \in 1..Len(displayed[d]) :
           BarColors(displayed[d], numSlices, r)[i] = "none"

C25_Witness ==
  /\ phase = "rendered"
  /\ \E d \in Regular : Len(displayed[d]) > 1 /\ AllZero(displayed[d])
  /\ \E c \in Composite :
       /\ AllZero(displayed[c])
       /\ \E d \in Regular : detectors[d].x < detectors[c].x /\ SeqSum(detectors[d].bins) > 0

(* ----------------------------- claim C26 -------------------------------- *)
(* C26: detector dragging is a well-formed state machine: in every         *)
(* reachable state isDraggingDetector is true exactly when                 *)
(* selectedDetectorIndex is a valid index into the detector list, and a    *)
(* mouse-move during a drag changes only the selected detector's centerY   *)
(* (to the pointer's y), leaving the number of detectors and every other   *)
(* field of every detector unchanged, even if detectors are deleted or     *)
(* cleared while the drag is active.                                       *)
C26_DragIsWellFormed ==
  [][/\ isDraggingDetector' <=> selectedDetectorIndex' \in 1..Len(detectors')
     /\ \A y \in Ys :
          (isDraggingDetector /\ \E x \in Xs : handleCanvasMouseMove(x, y)) =>
            /\ Len(detectors') = Len(detectors)
            /\ \A d \in 1..Len(detectors) :
                 detectors'[d] = IF d = selectedDetectorIndex
                                 THEN [detectors[d] EXCEPT !.centerY = y]
                                 ELSE detectors[d]]_vars

(* C27: only the click generated by the release that ends a detector drag  *)
(* is ignored on account of wasDragging.  wasDragging is set only between  *)
(* that release and its click: whenever the button is up or held, and so   *)
(* before every click that does not end a drag (the first click after a    *)
(* drag ended by the pointer leaving the canvas included), it is false.    *)
C27_OnlyTheEndingClickIsIgnored == wasDragging => pointer = "released"

(* C28: a pan gesture never edits the scene.  The click generated by the  *)
(* release that ends a pan of the chart creates or deletes no emitter, no  *)
(* detector and no reference line.                                         *)
C28_PanClickEditsNothing ==
  [][pointer = "pan released" =>
       /\ Len(rays') = Len(rays)
       /\ Len(detectors') = Len(detectors)
       /\ Len(referenceLines') = Len(referenceLines)]_vars

(* the squared distance, in pixels, of two grid points *)
SquaredDistance(x, y, px, py) == Px(x - px) * Px(x - px) + Px(y - py) * Px(y - py)

(* the elements whose dot, or centroid, holds the point *)
HitLines(x, y) ==
  {i \in 1..Len(referenceLines) :
     SquaredDistance(x, y, referenceLines[i].x, referenceLines[i].y)
       <= HOVER_DETECTION_RADIUS_SQUARED}

HitDetectors(x, y) ==
  {i \in 1..Len(detectors) :
     SquaredDistance(x, y, detectors[i].x, detectors[i].centerY)
       <= HOVER_DETECTION_RADIUS_SQUARED}

HitBursts(x, y) ==
  {i \in 1..Len(rays) :
     SquaredDistance(x, y, rays[i].x, rays[i].y) <= CENTROID_RADIUS * CENTROID_RADIUS}

(* after is before without one of the hit elements, the others in place *)
OneRemoved(before, after, hits) ==
  \E i \in hits :
    /\ Len(after) = Len(before) - 1
    /\ \A j \in 1..Len(after) : after[j] = (IF j < i THEN before[j] ELSE before[j + 1])

(* after is before with one element more, at the end *)
OneAdded(before, after) ==
  /\ Len(after) = Len(before) + 1
  /\ \A j \in 1..Len(before) : after[j] = before[j]

(* what a click at (x, y) that is not ignored does, by the priority of the *)
(* claim                                                                   *)
ClickOutcome(x, y) ==
  LET keyHeld == isHorizontalRefLine \/ isVerticalRefLine
      armed == isPlacingDetector \/ isPlacingCompositeDetector
      stillArmed == /\ isPlacingDetector' = isPlacingDetector
                    /\ isPlacingCompositeDetector' = isPlacingCompositeDetector
  IN IF HitLines(x, y) # {}
     THEN /\ OneRemoved(referenceLines, referenceLines', HitLines(x, y))
          /\ rays' = rays /\ detectors' = detectors /\ stillArmed
     ELSE IF HitDetectors(x, y) # {}
     THEN /\ OneRemoved(detectors, detectors', HitDetectors(x, y))
          /\ rays' = rays /\ referenceLines' = referenceLines /\ stillArmed
     ELSE IF keyHeld
     THEN /\ OneAdded(referenceLines, referenceLines')
          /\ referenceLines'[Len(referenceLines')].x = x
          /\ referenceLines'[Len(referenceLines')].y = y
          /\ rays' = rays /\ detectors' = detectors /\ stillArmed
     ELSE IF armed
     THEN /\ OneAdded(detectors, detectors')
          /\ rays' = rays /\ referenceLines' = referenceLines
     ELSE IF HitBursts(x, y) # {}
     THEN /\ OneRemoved(rays, rays', HitBursts(x, y))
          /\ detectors' = detectors /\ referenceLines' = referenceLines /\ stillArmed
     ELSE /\ OneAdded(rays, rays')
          /\ rays'[Len(rays')].x = x /\ rays'[Len(rays')].y = y
          /\ detectors' = detectors /\ referenceLines' = referenceLines /\ stillArmed

(* C29: every click that is not ignored does exactly one thing, by fixed   *)
(* priority: it deletes the reference line whose dot is hit; else deletes  *)
(* the detector whose dot is hit; else adds a reference line if H or V is  *)
(* held; else places a detector if placement is armed; else deletes the    *)
(* emitter whose centroid is hit; else creates an emitter.  A deletion     *)
(* removes the hit element alone, and a click on a delete dot with         *)
(* placement armed places nothing and leaves placement armed.              *)
C29_ClickPriority ==
  [][\A x \in PointerXs, y \in PointerYs :
       (pointer = "released" /\ ~isPanning /\ ~wasDragging /\ handleCanvasClick(x, y))
         => ClickOutcome(x, y)]_vars

(* a click is about to be handled with placement armed and H held, on a    *)
(* point that holds a detector's dot and an emitter's centroid, beside a   *)
(* reference line                                                          *)
C29_Witness ==
  /\ pointer = "released" /\ ~isPanning /\ ~wasDragging /\ Idle
  /\ isPlacingDetector /\ isHorizontalRefLine
  /\ Len(referenceLines) = 1
  /\ \E x \in PointerXs, y \in PointerYs :
       /\ HitDetectors(x, y) # {}
       /\ HitBursts(x, y) # {}
       /\ HitLines(x, y) = {}

(* the click at (x, y) reaches the placement branch: it is not ignored, no  *)
(* delete dot is hit, neither H nor V is held, and placement is armed      *)
PlacementClick(x, y) ==
  /\ pointer = "released" /\ ~isPanning /\ ~wasDragging
  /\ HitLines(x, y) = {} /\ HitDetectors(x, y) = {}
  /\ ~isHorizontalRefLine /\ ~isVerticalRefLine
  /\ isPlacingDetector \/ isPlacingCompositeDetector

(* C30: a click in placement mode appends exactly one detector, at the     *)
(* click position (x = click x, centerY = click y), of the current         *)
(* detector height, with numSlices zero bins, composite iff composite      *)
(* placement is armed; it disarms both placement modes and leaves the      *)
(* existing detectors as they are.  No other click adds a detector.        *)
C30_PlacementAppendsOneDetector ==
  [][\A x \in PointerXs, y \in PointerYs :
       (pointer = "released" /\ handleCanvasClick(x, y)) =>
         IF PlacementClick(x, y)
         THEN /\ Len(detectors') = Len(detectors) + 1
              /\ \A d \in 1..Len(detectors) : detectors'[d] = detectors[d]
              /\ LET placed == detectors'[Len(detectors')]
                 IN /\ placed.x = x
                    /\ placed.centerY = y
                    /\ placed.height = maxDetectorHeight
                    /\ Len(placed.bins) = numSlices
                    /\ \A b \in 1..numSlices : placed.bins[b] = 0
                    /\ placed.isComposite = isPlacingCompositeDetector
              /\ ~isPlacingDetector' /\ ~isPlacingCompositeDetector'
         ELSE Len(detectors') <= Len(detectors)]_vars

(* a second detector has been placed beside the first, one of them         *)
(* composite, and placement is disarmed                                    *)
C30_Witness ==
  /\ pointer = "up"
  /\ Len(detectors) = 2
  /\ detectors[1].x # detectors[2].x
  /\ detectors[1].isComposite # detectors[2].isComposite
  /\ ~isPlacingDetector /\ ~isPlacingCompositeDetector

====
